---- MODULE Spec2Model ----
(***************************************************************************)
(* Model of the Lattice platform glue: the per-pin I/O buffer synthesizer  *)
(* (_get_xdr_buffer) of the ECP5 and MachXO2/MachXO3L platforms, the ECP5  *)
(* toolchain selection, and the interface resource builders.               *)
(*                                                                         *)
(* Every operation is a call made by an external build driver.  The state  *)
(* records the ECP5 platform object and the last call: its arguments, the  *)
(* circuit builder it filled, what it returned and what it raised.         *)
(***************************************************************************)
EXTENDS Integers, Sequences, FiniteSets, TLC

VARIABLES
    platform,   \* the ECP5 platform object: class attribute, instance attribute
    op,         \* name of the last call
    args,       \* arguments of the last call
    m,          \* circuit builder (Module) after the last call
    ret,        \* value returned by the last call (<<>> when it raised)
    err,        \* exception raised by the last call (NoError when it returned)
    requested   \* resources the last call requested from the platform, in order

vars == <<platform, op, args, m, ret, err, requested>>

----------------------------------------------------------------------------
(* Bounds of the model *)

MaxWidth == 2      \* pin widths 1..MaxWidth
MaxXdr   == 8      \* gear values 0..MaxXdr
MaxCodingWidth == 3   \* widths 1..MaxCodingWidth of the encoders and decoders

----------------------------------------------------------------------------
(* Python values *)

None == <<>>                       \* an optional argument that is absent
Some(v) == <<v>>                   \* an optional argument that is present

NoError == [kind |-> "none", msg |-> <<>>]
ValueError(msg) == [kind |-> "ValueError", msg |-> msg]
AssertionError == [kind |-> "AssertionError", msg |-> <<>>]

\* A message fragment list mentions a value when one fragment is that value.
Mentions(e, v) == \E k \in DOMAIN e.msg : e.msg[k] = v

----------------------------------------------------------------------------
(* Signals and expressions of the hardware-description core, as this code  *)
(* uses them: a signal has a name and a width; ~ and replicate build       *)
(* expressions; s[bit] selects one bit.                                    *)

Signal(name, width) == [base |-> name, width |-> width, ops |-> <<>>, bit |-> -1]
Const(v)     == Signal(IF v = 1 THEN "Const(1)" ELSE "Const(0)", 1)
NoneSig      == Signal("None", 0)
Not(e)       == [e EXCEPT !.ops = Append(@, "~")]
Replicate(e, n) == [e EXCEPT !.ops = Append(@, "replicate"), !.width = @ * n]
Bit(e, b)    == [e EXCEPT !.bit = b]
SigLen(e)    == IF e.bit >= 0 THEN 1 ELSE e.width

\* Signal.like(z, name_suffix = '_n'): same shape, name of z with '_n' appended
NSuffix == [i  |-> "i_n",  i0 |-> "i0_n", i1 |-> "i1_n", i2 |-> "i2_n",
            i3 |-> "i3_n", i4 |-> "i4_n", i5 |-> "i5_n", i6 |-> "i6_n",
            o  |-> "o_n",  o0 |-> "o0_n", o1 |-> "o1_n", o2 |-> "o2_n",
            o3 |-> "o3_n", o4 |-> "o4_n", o5 |-> "o5_n", o6 |-> "o6_n"]
SignalLike(z) == Signal(NSuffix[z.base], z.width)

INames == <<"i0", "i1", "i2", "i3", "i4", "i5", "i6">>
ONames == <<"o0", "o1", "o2", "o3", "o4", "o5", "o6">>

\* Module(): an empty circuit builder.  signals lists the Signal objects the
\* call created, in creation order.
Module == [submodules |-> <<>>, signals |-> <<>>, comb |-> <<>>]

Instance(type, ports) == [type |-> type, ports |-> ports]
AddInstances(mod, insts) == [mod EXCEPT !.submodules = @ \o insts]

\* Pin of lib.io: direction, width, gear and the signals it carries
Dirs == {"i", "o", "oe", "io"}
HasI(dir) == dir \in {"i", "io"}       \* 'i' in pin.dir
HasO(dir) == dir \in {"o", "oe", "io"} \* 'o' in pin.dir
HasT(dir) == dir \in {"oe", "io"}      \* pin.dir in ('oe', 'io')

PinNames == {"x"}
Pins == [name : PinNames, dir : Dirs, width : 1..MaxWidth, xdr : 0..MaxXdr]

PinSig(pin, attr) == Signal(attr, pin.width)   \* pin.i, pin.i0, pin.o, ...
PinOe(pin)    == Signal("oe", 1)
PinIClk(pin)  == Signal("i_clk", 1)
PinOClk(pin)  == Signal("o_clk", 1)
PinIFClk(pin) == Signal("i_fclk", 1)
PinOFClk(pin) == Signal("o_fclk", 1)

----------------------------------------------------------------------------
(* ECP5Platform._get_xdr_buffer: the gear-stage helpers.  Each takes the    *)
(* circuit builder and returns it with the instances it added.             *)

ecp5_get_ireg(mod, clk, d, q) ==
    AddInstances(mod, [b \in 1..SigLen(q) |-> Instance("IFS1P3DX",
        [i_SCLK |-> clk, i_SP |-> Const(1), i_CD |-> Const(0),
         i_D |-> Bit(d, b - 1), o_Q |-> Bit(q, b - 1)])])

ecp5_get_oreg(mod, clk, d, q) ==
    AddInstances(mod, [b \in 1..SigLen(q) |-> Instance("OFS1P3DX",
        [i_SCLK |-> clk, i_SP |-> Const(1), i_CD |-> Const(0),
         i_D |-> Bit(d, b - 1), o_Q |-> Bit(q, b - 1)])])

\* Mutant of get_oereg: one enable register shared by all bits
ecp5_get_oereg_shared(mod, clk, oe, q) ==
    AddInstances(mod, <<Instance("OFS1P3DX",
        [i_SCLK |-> clk, i_SP |-> Const(1), i_CD |-> Const(0),
         i_D |-> oe, o_Q |-> Bit(q, 0)])>>)

ecp5_get_oereg(mod, clk, oe, q) ==
    AddInstances(mod, [b \in 1..SigLen(q) |-> Instance("OFS1P3DX",
        [i_SCLK |-> clk, i_SP |-> Const(1), i_CD |-> Const(0),
         i_D |-> oe, o_Q |-> Bit(q, b - 1)])])

ecp5_get_iddr(mod, sclk, d, q0, q1) ==
    AddInstances(mod, [b \in 1..SigLen(d) |-> Instance("IDDRX1F",
        [i_SCLK |-> sclk, i_RST |-> Const(0), i_D |-> Bit(d, b - 1),
         o_Q0 |-> Bit(q0, b - 1), o_Q1 |-> Bit(q1, b - 1)])])

ecp5_get_iddrx2(mod, sclk, eclk, d, q0, q1, q2, q3) ==
    AddInstances(mod, [b \in 1..SigLen(d) |-> Instance("IDDRX2F",
        [i_SCLK |-> sclk, i_ECLK |-> eclk, i_RST |-> Const(0), i_D |-> Bit(d, b - 1),
         o_Q0 |-> Bit(q0, b - 1), o_Q1 |-> Bit(q1, b - 1),
         o_Q2 |-> Bit(q2, b - 1), o_Q3 |-> Bit(q3, b - 1)])])

ecp5_get_iddr71b(mod, sclk, eclk, d, q0, q1, q2, q3, q4, q5, q6) ==
    AddInstances(mod, [b \in 1..SigLen(d) |-> Instance("IDDR71B",
        [i_SCLK |-> sclk, i_ECLK |-> eclk, i_RST |-> Const(0), i_D |-> Bit(d, b - 1),
         o_Q0 |-> Bit(q0, b - 1), o_Q1 |-> Bit(q1, b - 1), o_Q2 |-> Bit(q2, b - 1),
         o_Q3 |-> Bit(q3, b - 1), o_Q4 |-> Bit(q4, b - 1), o_Q5 |-> Bit(q5, b - 1),
         o_Q6 |-> Bit(q6, b - 1)])])

ecp5_get_oddr(mod, sclk, d0, d1, q) ==
    AddInstances(mod, [b \in 1..SigLen(q) |-> Instance("ODDRX1F",
        [i_SCLK |-> sclk, i_RST |-> Const(0),
         i_D0 |-> Bit(d0, b - 1), i_D1 |-> Bit(d1, b - 1), o_Q |-> Bit(q, b - 1)])])

\* Mutant of get_oddrx2: the slow and the fast clock are exchanged
ecp5_get_oddrx2_swapped_clocks(mod, sclk, eclk, d0, d1, d2, d3, q) ==
    AddInstances(mod, [b \in 1..SigLen(q) |-> Instance("ODDRX2F",
        [i_SCLK |-> eclk, i_ECLK |-> sclk, i_RST |-> Const(0),
         i_D0 |-> Bit(d0, b - 1), i_D1 |-> Bit(d1, b - 1),
         i_D2 |-> Bit(d2, b - 1), i_D3 |-> Bit(d3, b - 1), o_Q |-> Bit(q, b - 1)])])

ecp5_get_oddrx2(mod, sclk, eclk, d0, d1, d2, d3, q) ==
    AddInstances(mod, [b \in 1..SigLen(q) |-> Instance("ODDRX2F",
        [i_SCLK |-> sclk, i_ECLK |-> eclk, i_RST |-> Const(0),
         i_D0 |-> Bit(d0, b - 1), i_D1 |-> Bit(d1, b - 1),
         i_D2 |-> Bit(d2, b - 1), i_D3 |-> Bit(d3, b - 1), o_Q |-> Bit(q, b - 1)])])

ecp5_get_oddr71b(mod, sclk, eclk, d0, d1, d2, d3, d4, d5, d6, q) ==
    AddInstances(mod, [b \in 1..SigLen(q) |-> Instance("ODDR71B",
        [i_SCLK |-> sclk, i_ECLK |-> eclk, i_RST |-> Const(0),
         i_D0 |-> Bit(d0, b - 1), i_D1 |-> Bit(d1, b - 1), i_D2 |-> Bit(d2, b - 1),
         i_D3 |-> Bit(d3, b - 1), i_D4 |-> Bit(d4, b - 1), i_D5 |-> Bit(d5, b - 1),
         i_D6 |-> Bit(d6, b - 1), o_Q |-> Bit(q, b - 1)])])

\* get_ineg: the signal the gear stage drives; z is the caller-visible one
ecp5_get_ineg(mod, z, invert) ==
    IF invert
    THEN LET a == SignalLike(z)
         IN [m |-> [mod EXCEPT !.signals = Append(@, a),
                               !.comb = Append(@, [lhs |-> z, rhs |-> Not(a)])],
             sig |-> a]
    ELSE [m |-> mod, sig |-> z]

\* Mutant of get_oneg: the negation is wired but the original is returned
ecp5_get_oneg_alias(mod, a, invert) ==
    IF invert
    THEN LET z == SignalLike(a)
         IN [m |-> [mod EXCEPT !.signals = Append(@, z),
                               !.comb = Append(@, [lhs |-> z, rhs |-> Not(a)])],
             sig |-> a]
    ELSE [m |-> mod, sig |-> a]

\* get_oneg: the signal the gear stage reads; a is the caller-visible one
ecp5_get_oneg(mod, a, invert) ==
    IF invert
    THEN LET z == SignalLike(a)
         IN [m |-> [mod EXCEPT !.signals = Append(@, z),
                               !.comb = Append(@, [lhs |-> z, rhs |-> Not(a)])],
             sig |-> z]
    ELSE [m |-> mod, sig |-> a]

\* The data streams the code names for a gear: i / i0..i1 / i0..i3 / i0..i6,
\* and none when no branch of the if chain matches.
ecp5_streams(xdr, one, names) ==
    IF xdr < 2 THEN <<one>>
    ELSE IF xdr = 2 THEN SubSeq(names, 1, 2)
    ELSE IF xdr = 4 THEN SubSeq(names, 1, 4)
    ELSE IF xdr = 7 THEN SubSeq(names, 1, 7)
    ELSE <<>>

\* pin_i, pin_i0, ... = get_ineg(pin.i, i_invert), ... in source order
RECURSIVE ecp5_pin_i(_, _, _, _)
ecp5_pin_i(mod, pin, names, invert) ==
    IF names = <<>> THEN [m |-> mod, sigs |-> <<>>]
    ELSE LET r    == ecp5_get_ineg(mod, PinSig(pin, Head(names)), invert)
             rest == ecp5_pin_i(r.m, pin, Tail(names), invert)
         IN [m |-> rest.m, sigs |-> <<r.sig>> \o rest.sigs]

\* pin_o, pin_o0, ... = get_oneg(pin.o, o_invert), ... in source order
RECURSIVE ecp5_pin_o(_, _, _, _)
ecp5_pin_o(mod, pin, names, invert) ==
    IF names = <<>> THEN [m |-> mod, sigs |-> <<>>]
    ELSE LET r    == ecp5_get_oneg(mod, PinSig(pin, Head(names)), invert)
             rest == ecp5_pin_o(r.m, pin, Tail(names), invert)
         IN [m |-> rest.m, sigs |-> <<r.sig>> \o rest.sigs]

\* The Signal objects among a triple of handles join the created signals
CreateSignals(mod, h) ==
    [mod EXCEPT !.signals = @ \o SelectSeq(<<h.i, h.o, h.t>>, LAMBDA x : x # NoneSig)]

\* Mutant of the handle creation: a one-bit tristate handle
ecp5_xdr_signals_t1(pin) ==
    [i |-> IF HasI(pin.dir) THEN Signal("xdr_i", pin.width) ELSE NoneSig,
     o |-> IF HasO(pin.dir) THEN Signal("xdr_o", pin.width) ELSE NoneSig,
     t |-> IF HasT(pin.dir) THEN Signal("xdr_t", 1) ELSE NoneSig]

\* i = o = t = None, then one Signal of the pin's width per direction present
ecp5_xdr_signals(pin) ==
    [i |-> IF HasI(pin.dir) THEN Signal("xdr_i", pin.width) ELSE NoneSig,
     o |-> IF HasO(pin.dir) THEN Signal("xdr_o", pin.width) ELSE NoneSig,
     t |-> IF HasT(pin.dir) THEN Signal("xdr_t", pin.width) ELSE NoneSig]

\* Mutant of the error: the message leaves the pin out
ecp5_invalid_gearing_anonymous(pin) ==
    ValueError(<<"Invalid gearing ", ToString(pin.xdr),
                 ", must be one of, 0, 1, 2, 4, or 7">>)

\* the error of the final else branch
ecp5_invalid_gearing(pin) ==
    ValueError(<<"Invalid gearing ", ToString(pin.xdr), " for pin ", pin.name,
                 ", must be one of, 0, 1, 2, 4, or 7">>)

\* ECP5Platform._get_xdr_buffer(m, pin, i_invert, o_invert): the builder after
\* the call, the returned triple (i, o, t) and the exception raised
\* The branch on pin.xdr, given the module with the signals created so far
\* (m0), the pin's streams or their inversion auxiliaries (pin_i, pin_o) and the
\* handles (h)
ecp5_gear_stage(pin, m0, pin_i, pin_o, h) ==
    LET w  == pin.width
        i  == h.i
        o  == h.o
        t  == h.t
        oe_n == Not(PinOe(pin))
    IN  IF pin.xdr = 0 THEN
            [m   |-> m0,
             ret |-> << IF HasI(pin.dir) THEN pin_i[1] ELSE i,
                        IF HasO(pin.dir) THEN pin_o[1] ELSE o,
                        IF HasT(pin.dir) THEN Not(Replicate(PinOe(pin), w)) ELSE t >>,
             err |-> NoError]
        ELSE IF pin.xdr = 1 THEN
            LET a == IF HasI(pin.dir) THEN ecp5_get_ireg(m0, PinIClk(pin), i, pin_i[1]) ELSE m0
                b == IF HasO(pin.dir) THEN ecp5_get_oreg(a, PinOClk(pin), pin_o[1], o) ELSE a
                c == IF HasT(pin.dir) THEN ecp5_get_oereg(b, PinOClk(pin), oe_n, t) ELSE b
            IN  [m |-> c, ret |-> <<i, o, t>>, err |-> NoError]
        ELSE IF pin.xdr = 2 THEN
            LET a == IF HasI(pin.dir)
                     THEN ecp5_get_iddr(m0, PinIClk(pin), i, pin_i[1], pin_i[2]) ELSE m0
                b == IF HasO(pin.dir)
                     THEN ecp5_get_oddr(a, PinOClk(pin), pin_o[1], pin_o[2], o) ELSE a
                c == IF HasT(pin.dir) THEN ecp5_get_oereg(b, PinOClk(pin), oe_n, t) ELSE b
            IN  [m |-> c, ret |-> <<i, o, t>>, err |-> NoError]
        ELSE IF pin.xdr = 4 THEN
            LET a == IF HasI(pin.dir)
                     THEN ecp5_get_iddrx2(m0, PinIClk(pin), PinIFClk(pin), i,
                                          pin_i[1], pin_i[2], pin_i[3], pin_i[4]) ELSE m0
                b == IF HasO(pin.dir)
                     THEN ecp5_get_oddrx2(a, PinOClk(pin), PinOFClk(pin),
                                          pin_o[1], pin_o[2], pin_o[3], pin_o[4], o) ELSE a
                c == IF HasT(pin.dir) THEN ecp5_get_oereg(b, PinOClk(pin), oe_n, t) ELSE b
            IN  [m |-> c, ret |-> <<i, o, t>>, err |-> NoError]
        ELSE IF pin.xdr = 7 THEN
            LET a == IF HasI(pin.dir)
                     THEN ecp5_get_iddr71b(m0, PinIClk(pin), PinIFClk(pin), i,
                                           pin_i[1], pin_i[2], pin_i[3], pin_i[4],
                                           pin_i[5], pin_i[6], pin_i[7]) ELSE m0
                b == IF HasO(pin.dir)
                     THEN ecp5_get_oddr71b(a, PinOClk(pin), PinOFClk(pin),
                                           pin_o[1], pin_o[2], pin_o[3], pin_o[4],
                                           pin_o[5], pin_o[6], pin_o[7], o) ELSE a
                c == IF HasT(pin.dir) THEN ecp5_get_oereg(b, PinOClk(pin), oe_n, t) ELSE b
            IN  [m |-> c, ret |-> <<i, o, t>>, err |-> NoError]
        ELSE
            [m   |-> m0,
             ret |-> <<>>,
             err |-> ecp5_invalid_gearing(pin)]

ECP5_get_xdr_buffer(mod, pin, i_invert, o_invert) ==
    LET ri == IF HasI(pin.dir)
              THEN ecp5_pin_i(mod, pin, ecp5_streams(pin.xdr, "i", INames), i_invert)
              ELSE [m |-> mod, sigs |-> <<>>]
        ro == IF HasO(pin.dir)
              THEN ecp5_pin_o(ri.m, pin, ecp5_streams(pin.xdr, "o", ONames), o_invert)
              ELSE [m |-> ri.m, sigs |-> <<>>]
        h  == ecp5_xdr_signals(pin)
    IN  ecp5_gear_stage(pin, CreateSignals(ro.m, h), ri.sigs, ro.sigs, h)

----------------------------------------------------------------------------
(* LatticeMachXO2Or3LPlatform._get_xdr_buffer *)

machxo_get_ireg(mod, clk, d, q) ==
    AddInstances(mod, [b \in 1..SigLen(q) |-> Instance("IFS1P3DX",
        [i_SCLK |-> clk, i_SP |-> Const(1), i_CD |-> Const(0),
         i_D |-> Bit(d, b - 1), o_Q |-> Bit(q, b - 1)])])

machxo_get_oreg(mod, clk, d, q) ==
    AddInstances(mod, [b \in 1..SigLen(q) |-> Instance("OFS1P3DX",
        [i_SCLK |-> clk, i_SP |-> Const(1), i_CD |-> Const(0),
         i_D |-> Bit(d, b - 1), o_Q |-> Bit(q, b - 1)])])

machxo_get_iddr(mod, sclk, d, q0, q1) ==
    AddInstances(mod, [b \in 1..SigLen(d) |-> Instance("IDDRXE",
        [i_SCLK |-> sclk, i_RST |-> Const(0), i_D |-> Bit(d, b - 1),
         o_Q0 |-> Bit(q0, b - 1), o_Q1 |-> Bit(q1, b - 1)])])

machxo_get_oddr(mod, sclk, d0, d1, q) ==
    AddInstances(mod, [b \in 1..SigLen(q) |-> Instance("ODDRXE",
        [i_SCLK |-> sclk, i_RST |-> Const(0),
         i_D0 |-> Bit(d0, b - 1), i_D1 |-> Bit(d1, b - 1), o_Q |-> Bit(q, b - 1)])])

machxo_get_ineg(mod, z, invert) ==
    IF invert
    THEN LET a == SignalLike(z)
         IN [m |-> [mod EXCEPT !.signals = Append(@, a),
                               !.comb = Append(@, [lhs |-> z, rhs |-> Not(a)])],
             sig |-> a]
    ELSE [m |-> mod, sig |-> z]

machxo_get_oneg(mod, a, invert) ==
    IF invert
    THEN LET z == SignalLike(a)
         IN [m |-> [mod EXCEPT !.signals = Append(@, z),
                               !.comb = Append(@, [lhs |-> z, rhs |-> Not(a)])],
             sig |-> z]
    ELSE [m |-> mod, sig |-> a]

machxo_streams(xdr, one, names) ==
    IF xdr < 2 THEN <<one>>
    ELSE IF xdr = 2 THEN SubSeq(names, 1, 2)
    ELSE <<>>

RECURSIVE machxo_pin_i(_, _, _, _)
machxo_pin_i(mod, pin, names, invert) ==
    IF names = <<>> THEN [m |-> mod, sigs |-> <<>>]
    ELSE LET r    == machxo_get_ineg(mod, PinSig(pin, Head(names)), invert)
             rest == machxo_pin_i(r.m, pin, Tail(names), invert)
         IN [m |-> rest.m, sigs |-> <<r.sig>> \o rest.sigs]

RECURSIVE machxo_pin_o(_, _, _, _)
machxo_pin_o(mod, pin, names, invert) ==
    IF names = <<>> THEN [m |-> mod, sigs |-> <<>>]
    ELSE LET r    == machxo_get_oneg(mod, PinSig(pin, Head(names)), invert)
             rest == machxo_pin_o(r.m, pin, Tail(names), invert)
         IN [m |-> rest.m, sigs |-> <<r.sig>> \o rest.sigs]

\* Mutant of the handle creation: t of the pin's width
machxo_xdr_signals_tw(pin) ==
    [i |-> IF HasI(pin.dir) THEN Signal("xdr_i", pin.width) ELSE NoneSig,
     o |-> IF HasO(pin.dir) THEN Signal("xdr_o", pin.width) ELSE NoneSig,
     t |-> IF HasT(pin.dir) THEN Signal("xdr_t", pin.width) ELSE NoneSig]

\* i, o of the pin's width; t is a single bit shared by all bits of the pin
machxo_xdr_signals(pin) ==
    [i |-> IF HasI(pin.dir) THEN Signal("xdr_i", pin.width) ELSE NoneSig,
     o |-> IF HasO(pin.dir) THEN Signal("xdr_o", pin.width) ELSE NoneSig,
     t |-> IF HasT(pin.dir) THEN Signal("xdr_t", 1) ELSE NoneSig]

MachXO_get_xdr_buffer(mod, pin, i_invert, o_invert) ==
    LET w  == pin.width
        ri == IF HasI(pin.dir)
              THEN machxo_pin_i(mod, pin, machxo_streams(pin.xdr, "i", INames), i_invert)
              ELSE [m |-> mod, sigs |-> <<>>]
        ro == IF HasO(pin.dir)
              THEN machxo_pin_o(ri.m, pin, machxo_streams(pin.xdr, "o", ONames), o_invert)
              ELSE [m |-> ri.m, sigs |-> <<>>]
        pin_i == ri.sigs
        pin_o == ro.sigs
        h  == machxo_xdr_signals(pin)
        i  == h.i
        o  == h.o
        t  == h.t
        m0 == CreateSignals(ro.m, h)
        oe_n == Not(PinOe(pin))
    IN  IF pin.xdr = 0 THEN
            [m   |-> m0,
             ret |-> << IF HasI(pin.dir) THEN pin_i[1] ELSE i,
                        IF HasO(pin.dir) THEN pin_o[1] ELSE o,
                        IF HasT(pin.dir) THEN oe_n ELSE t >>,
             err |-> NoError]
        ELSE IF pin.xdr = 1 THEN
            LET a == IF HasI(pin.dir) THEN machxo_get_ireg(m0, PinIClk(pin), i, pin_i[1]) ELSE m0
                b == IF HasO(pin.dir) THEN machxo_get_oreg(a, PinOClk(pin), pin_o[1], o) ELSE a
                c == IF HasT(pin.dir) THEN machxo_get_oreg(b, PinOClk(pin), oe_n, t) ELSE b
            IN  [m |-> c, ret |-> <<i, o, t>>, err |-> NoError]
        ELSE IF pin.xdr = 2 THEN
            LET a == IF HasI(pin.dir)
                     THEN machxo_get_iddr(m0, PinIClk(pin), i, pin_i[1], pin_i[2]) ELSE m0
                b == IF HasO(pin.dir)
                     THEN machxo_get_oddr(a, PinOClk(pin), pin_o[1], pin_o[2], o) ELSE a
                c == IF HasT(pin.dir) THEN machxo_get_oreg(b, PinOClk(pin), oe_n, t) ELSE b
            IN  [m |-> c, ret |-> <<i, o, t>>, err |-> NoError]
        ELSE
            [m |-> m0, ret |-> <<>>, err |-> AssertionError]

----------------------------------------------------------------------------
(* The second layer: get_input, get_output, get_tristate, get_input_output  *)
(* and their differential counterparts.  Each builds a fresh Module, runs   *)
(* the gear stage into it and adds one named buffer per bit.               *)

\* F applied to the value of v, which is computed once
Bind(v, F(_)) == CHOOSE y \in {F(x) : x \in {v}} : TRUE

NotImplementedError(msg) == [kind |-> "NotImplementedError", msg |-> msg]

\* m.submodules[name] = Instance(type, ports)
NamedInstance(name, type, ports) == [type |-> type, ports |-> ports, name |-> name]

\* The port record of a resource: io when single-ended, p and n when differential
SinglePort(pin) == [io |-> Signal("port.io", pin.width)]
DiffPort(pin)   == [p |-> Signal("port.p", pin.width), n |-> Signal("port.n", pin.width)]
PortLen(port)   == IF "io" \in DOMAIN port THEN port.io.width
                   ELSE port.p.width + port.n.width

\* Attrs: the only attribute this code reads is IO_TYPE, which may be absent
BufferIOTypes == {None, Some("LVCMOS33"), Some("LVCMOS33D")}
BufferAttrs   == [IO_TYPE : BufferIOTypes]
AttrsGet(attrs, default) == IF attrs.IO_TYPE = None THEN default ELSE attrs.IO_TYPE[1]

\* The electrical standards of the two platforms
ecp5_single_ended_io_types ==
    {"HSUL12", "LVCMOS12", "LVCMOS15", "LVCMOS18", "LVCMOS25", "LVCMOS33", "LVTTL33",
     "SSTL135_I", "SSTL135_II", "SSTL15_I", "SSTL15_II", "SSTL18_I", "SSTL18_II"}
ecp5_differential_io_types ==
    {"BLVDS25", "BLVDS25E", "HSUL12D", "LVCMOS18D", "LVCMOS25D", "LVCMOS33D",
     "LVDS", "LVDS25E", "LVPECL33", "LVPECL33E", "LVTTL33D", "MLVDS", "MLVDS25E",
     "SLVS", "SSTL135D_I", "SSTL135D_II", "SSTL15D_I", "SSTL15D_II", "SSTL18D_I",
     "SSTL18D_II", "SUBLVDS"}
machxo_single_ended_io_types ==
    {"PCI33", "LVTTL33", "LVCMOS33", "LVCMOS25", "LVCMOS18", "LVCMOS15", "LVCMOS12",
     "LVCMOS25R33", "LVCMOS18R33", "LVCMOS18R25", "LVCMOS15R33", "LVCMOS15R25",
     "LVCMOS12R33", "LVCMOS12R25", "LVCMOS10R33", "LVCMOS10R25", "SSTL25_I",
     "SSTL25_II", "SSTL18_I", "SSTL18_II", "HSTL18_I", "HSTL18_II"}
machxo_differential_io_types ==
    {"LVDS25", "LVDS25E", "RSDS25", "RSDS25E", "BLVDS25", "BLVDS25E", "MLVDS25",
     "MLVDS25E", "LVPECL33", "LVPECL33E", "SSTL25D_I", "SSTL25D_II", "SSTL18D_I",
     "SSTL18D_II", "HSTL18D_I", "HSTL18D_II", "LVTTL33D", "LVCMOS33D", "LVCMOS25D",
     "LVCMOS18D", "LVCMOS15D", "LVCMOS12D", "MIPI"}

\* the components of a port, and the attributes a resource may carry
Components == {"io", "i", "o", "p", "n", "oe"}
AllIOTypes == ecp5_single_ended_io_types \cup ecp5_differential_io_types
              \cup machxo_single_ended_io_types \cup machxo_differential_io_types
PortAttrs  == [IO_TYPE : {None} \cup {Some(t) : t \in AllIOTypes}]

ECP5_should_skip_port_component(port, attrs, component) ==
    IF AttrsGet(attrs, "LVCMOS25") \in ecp5_differential_io_types /\ component = "n"
    THEN TRUE
    ELSE FALSE

\* Mutant of should_skip_port_component: the component is not looked at
MachXO_should_skip_any_component(port, attrs, component) ==
    IF AttrsGet(attrs, "LVCMOS25") \in machxo_differential_io_types
    THEN TRUE
    ELSE FALSE

MachXO_should_skip_port_component(port, attrs, component) ==
    IF AttrsGet(attrs, "LVCMOS25") \in machxo_differential_io_types /\ component = "n"
    THEN TRUE
    ELSE FALSE

\* self._check_feature(feature, pin, attrs, valid_xdrs, valid_attrs) of the
\* platform base class: the gear must be one the platform declares for the feature
check_feature(feature, pin, attrs, valid_xdrs, valid_attrs) ==
    IF valid_xdrs = {}
    THEN NotImplementedError(<<"Platform does not support ", feature>>)
    ELSE IF pin.xdr \notin valid_xdrs
    THEN NotImplementedError(<<"Platform does not support ", feature,
                               " for XDR ", ToString(pin.xdr)>>)
    ELSE IF ~ valid_attrs /\ attrs.IO_TYPE # None
    THEN NotImplementedError(<<"Platform does not support attributes for ", feature>>)
    ELSE NoError

ecp5_valid_xdrs   == {0, 1, 2, 4, 7}
machxo_valid_xdrs == {0, 1, 2}

\* f'{pin.name}_{bit}'
BufferName(pin, bit) == <<pin.name, "_", ToString(bit)>>

\* ECP5Platform
ECP5_get_input(pin, port, attrs, invert) ==
    LET e == check_feature("single-ended input", pin, attrs, ecp5_valid_xdrs, TRUE)
        AddBuffers(r) ==
            IF r.err # NoError THEN [m |-> r.m, err |-> r.err]
            ELSE LET i == r.ret[1]
                     o == r.ret[2]
                     t == r.ret[3]
                 IN  [m   |-> AddInstances(r.m, [b \in 1..pin.width |->
                                 NamedInstance(BufferName(pin, b - 1), "IB",
                                     [i_I |-> Bit(port.io, b - 1), o_O |-> Bit(i, b - 1)])]),
                      err |-> NoError]
    IN  IF e # NoError THEN [m |-> Module, err |-> e]
        ELSE Bind(ECP5_get_xdr_buffer(Module, pin, invert, FALSE), AddBuffers)

ECP5_get_output(pin, port, attrs, invert) ==
    LET e == check_feature("single-ended output", pin, attrs, ecp5_valid_xdrs, TRUE)
        AddBuffers(r) ==
            IF r.err # NoError THEN [m |-> r.m, err |-> r.err]
            ELSE LET i == r.ret[1]
                     o == r.ret[2]
                     t == r.ret[3]
                 IN  [m   |-> AddInstances(r.m, [b \in 1..pin.width |->
                                 NamedInstance(BufferName(pin, b - 1), "OB",
                                     [i_I |-> Bit(o, b - 1), o_O |-> Bit(port.io, b - 1)])]),
                      err |-> NoError]
    IN  IF e # NoError THEN [m |-> Module, err |-> e]
        ELSE Bind(ECP5_get_xdr_buffer(Module, pin, FALSE, invert), AddBuffers)

\* Mutant of get_tristate: every buffer takes bit 0 of t
ECP5_get_tristate_t0(pin, port, attrs, invert) ==
    LET e == check_feature("single-ended tristate", pin, attrs, ecp5_valid_xdrs, TRUE)
        AddBuffers(r) ==
            IF r.err # NoError THEN [m |-> r.m, err |-> r.err]
            ELSE LET i == r.ret[1]
                     o == r.ret[2]
                     t == r.ret[3]
                 IN  [m   |-> AddInstances(r.m, [b \in 1..pin.width |->
                                 NamedInstance(BufferName(pin, b - 1), "OBZ",
                                     [i_T |-> Bit(t, 0), i_I |-> Bit(o, b - 1),
                                      o_O |-> Bit(port.io, b - 1)])]),
                      err |-> NoError]
    IN  IF e # NoError THEN [m |-> Module, err |-> e]
        ELSE Bind(ECP5_get_xdr_buffer(Module, pin, FALSE, invert), AddBuffers)

ECP5_get_tristate(pin, port, attrs, invert) ==
    LET e == check_feature("single-ended tristate", pin, attrs, ecp5_valid_xdrs, TRUE)
        AddBuffers(r) ==
            IF r.err # NoError THEN [m |-> r.m, err |-> r.err]
            ELSE LET i == r.ret[1]
                     o == r.ret[2]
                     t == r.ret[3]
                 IN  [m   |-> AddInstances(r.m, [b \in 1..pin.width |->
                                 NamedInstance(BufferName(pin, b - 1), "OBZ",
                                     [i_T |-> Bit(t, b - 1), i_I |-> Bit(o, b - 1), o_O |-> Bit(port.io, b - 1)])]),
                      err |-> NoError]
    IN  IF e # NoError THEN [m |-> Module, err |-> e]
        ELSE Bind(ECP5_get_xdr_buffer(Module, pin, FALSE, invert), AddBuffers)

\* Mutant of get_input_output: the invert argument is not handed on
ECP5_get_input_output_no_invert(pin, port, attrs, invert) ==
    LET e == check_feature("single-ended input/output", pin, attrs, ecp5_valid_xdrs, TRUE)
        AddBuffers(r) ==
            IF r.err # NoError THEN [m |-> r.m, err |-> r.err]
            ELSE LET i == r.ret[1]
                     o == r.ret[2]
                     t == r.ret[3]
                 IN  [m   |-> AddInstances(r.m, [b \in 1..pin.width |->
                                 NamedInstance(BufferName(pin, b - 1), "BB",
                                     [i_T |-> Bit(t, b - 1), i_I |-> Bit(o, b - 1),
                                      o_O |-> Bit(i, b - 1), io_B |-> Bit(port.io, b - 1)])]),
                      err |-> NoError]
    IN  IF e # NoError THEN [m |-> Module, err |-> e]
        ELSE Bind(ECP5_get_xdr_buffer(Module, pin, FALSE, FALSE), AddBuffers)

ECP5_get_input_output(pin, port, attrs, invert) ==
    LET e == check_feature("single-ended input/output", pin, attrs, ecp5_valid_xdrs, TRUE)
        AddBuffers(r) ==
            IF r.err # NoError THEN [m |-> r.m, err |-> r.err]
            ELSE LET i == r.ret[1]
                     o == r.ret[2]
                     t == r.ret[3]
                 IN  [m   |-> AddInstances(r.m, [b \in 1..pin.width |->
                                 NamedInstance(BufferName(pin, b - 1), "BB",
                                     [i_T |-> Bit(t, b - 1), i_I |-> Bit(o, b - 1), o_O |-> Bit(i, b - 1),
                                      io_B |-> Bit(port.io, b - 1)])]),
                      err |-> NoError]
    IN  IF e # NoError THEN [m |-> Module, err |-> e]
        ELSE Bind(ECP5_get_xdr_buffer(Module, pin, invert, invert), AddBuffers)

ECP5_get_diff_input(pin, port, attrs, invert) ==
    LET e == check_feature("differential input", pin, attrs, ecp5_valid_xdrs, TRUE)
        AddBuffers(r) ==
            IF r.err # NoError THEN [m |-> r.m, err |-> r.err]
            ELSE LET i == r.ret[1]
                     o == r.ret[2]
                     t == r.ret[3]
                 IN  [m   |-> AddInstances(r.m, [b \in 1..pin.width |->
                                 NamedInstance(BufferName(pin, b - 1), "IB",
                                     [i_I |-> Bit(port.p, b - 1), o_O |-> Bit(i, b - 1)])]),
                      err |-> NoError]
    IN  IF e # NoError THEN [m |-> Module, err |-> e]
        ELSE Bind(ECP5_get_xdr_buffer(Module, pin, invert, FALSE), AddBuffers)

ECP5_get_diff_output(pin, port, attrs, invert) ==
    LET e == check_feature("differential output", pin, attrs, ecp5_valid_xdrs, TRUE)
        AddBuffers(r) ==
            IF r.err # NoError THEN [m |-> r.m, err |-> r.err]
            ELSE LET i == r.ret[1]
                     o == r.ret[2]
                     t == r.ret[3]
                 IN  [m   |-> AddInstances(r.m, [b \in 1..pin.width |->
                                 NamedInstance(BufferName(pin, b - 1), "OB",
                                     [i_I |-> Bit(o, b - 1), o_O |-> Bit(port.p, b - 1)])]),
                      err |-> NoError]
    IN  IF e # NoError THEN [m |-> Module, err |-> e]
        ELSE Bind(ECP5_get_xdr_buffer(Module, pin, FALSE, invert), AddBuffers)

\* Mutant of get_diff_tristate: a buffer on port.n too, unless the IO_TYPE is
\* in the differential catalog
ECP5_get_diff_tristate_both_legs(pin, port, attrs, invert) ==
    LET e == check_feature("differential tristate", pin, attrs, ecp5_valid_xdrs, TRUE)
        AddBuffers(r) ==
            IF r.err # NoError THEN [m |-> r.m, err |-> r.err]
            ELSE LET i == r.ret[1]
                     o == r.ret[2]
                     t == r.ret[3]
                     mp == AddInstances(r.m, [b \in 1..pin.width |->
                                 NamedInstance(BufferName(pin, b - 1), "OBZ",
                                     [i_T |-> Bit(t, b - 1), i_I |-> Bit(o, b - 1),
                                      o_O |-> Bit(port.p, b - 1)])])
                     mn == AddInstances(mp, [b \in 1..pin.width |->
                                 NamedInstance(<<pin.name, "_n_", ToString(b - 1)>>, "OBZ",
                                     [i_T |-> Bit(t, b - 1), i_I |-> Bit(o, b - 1),
                                      o_O |-> Bit(port.n, b - 1)])])
                 IN  [m   |-> IF ECP5_should_skip_port_component(port, attrs, "n")
                              THEN mp ELSE mn,
                      err |-> NoError]
    IN  IF e # NoError THEN [m |-> Module, err |-> e]
        ELSE Bind(ECP5_get_xdr_buffer(Module, pin, FALSE, invert), AddBuffers)

ECP5_get_diff_tristate(pin, port, attrs, invert) ==
    LET e == check_feature("differential tristate", pin, attrs, ecp5_valid_xdrs, TRUE)
        AddBuffers(r) ==
            IF r.err # NoError THEN [m |-> r.m, err |-> r.err]
            ELSE LET i == r.ret[1]
                     o == r.ret[2]
                     t == r.ret[3]
                 IN  [m   |-> AddInstances(r.m, [b \in 1..pin.width |->
                                 NamedInstance(BufferName(pin, b - 1), "OBZ",
                                     [i_T |-> Bit(t, b - 1), i_I |-> Bit(o, b - 1), o_O |-> Bit(port.p, b - 1)])]),
                      err |-> NoError]
    IN  IF e # NoError THEN [m |-> Module, err |-> e]
        ELSE Bind(ECP5_get_xdr_buffer(Module, pin, FALSE, invert), AddBuffers)

ECP5_get_diff_input_output(pin, port, attrs, invert) ==
    LET e == check_feature("differential input/output", pin, attrs, ecp5_valid_xdrs, TRUE)
        AddBuffers(r) ==
            IF r.err # NoError THEN [m |-> r.m, err |-> r.err]
            ELSE LET i == r.ret[1]
                     o == r.ret[2]
                     t == r.ret[3]
                 IN  [m   |-> AddInstances(r.m, [b \in 1..pin.width |->
                                 NamedInstance(BufferName(pin, b - 1), "BB",
                                     [i_T |-> Bit(t, b - 1), i_I |-> Bit(o, b - 1), o_O |-> Bit(i, b - 1),
                                      io_B |-> Bit(port.p, b - 1)])]),
                      err |-> NoError]
    IN  IF e # NoError THEN [m |-> Module, err |-> e]
        ELSE Bind(ECP5_get_xdr_buffer(Module, pin, invert, invert), AddBuffers)

\* LatticeMachXO2Or3LPlatform
MachXO_get_input(pin, port, attrs, invert) ==
    LET e == check_feature("single-ended input", pin, attrs, machxo_valid_xdrs, TRUE)
        AddBuffers(r) ==
            IF r.err # NoError THEN [m |-> r.m, err |-> r.err]
            ELSE LET i == r.ret[1]
                     o == r.ret[2]
                     t == r.ret[3]
                 IN  [m   |-> AddInstances(r.m, [b \in 1..PortLen(port) |->
                                 NamedInstance(BufferName(pin, b - 1), "IB",
                                     [i_I |-> Bit(port.io, b - 1), o_O |-> Bit(i, b - 1)])]),
                      err |-> NoError]
    IN  IF e # NoError THEN [m |-> Module, err |-> e]
        ELSE Bind(MachXO_get_xdr_buffer(Module, pin, invert, FALSE), AddBuffers)

MachXO_get_output(pin, port, attrs, invert) ==
    LET e == check_feature("single-ended output", pin, attrs, machxo_valid_xdrs, TRUE)
        AddBuffers(r) ==
            IF r.err # NoError THEN [m |-> r.m, err |-> r.err]
            ELSE LET i == r.ret[1]
                     o == r.ret[2]
                     t == r.ret[3]
                 IN  [m   |-> AddInstances(r.m, [b \in 1..PortLen(port) |->
                                 NamedInstance(BufferName(pin, b - 1), "OB",
                                     [i_I |-> Bit(o, b - 1), o_O |-> Bit(port.io, b - 1)])]),
                      err |-> NoError]
    IN  IF e # NoError THEN [m |-> Module, err |-> e]
        ELSE Bind(MachXO_get_xdr_buffer(Module, pin, FALSE, invert), AddBuffers)

MachXO_get_tristate(pin, port, attrs, invert) ==
    LET e == check_feature("single-ended tristate", pin, attrs, machxo_valid_xdrs, TRUE)
        AddBuffers(r) ==
            IF r.err # NoError THEN [m |-> r.m, err |-> r.err]
            ELSE LET i == r.ret[1]
                     o == r.ret[2]
                     t == r.ret[3]
                 IN  [m   |-> AddInstances(r.m, [b \in 1..PortLen(port) |->
                                 NamedInstance(BufferName(pin, b - 1), "OBZ",
                                     [i_T |-> t, i_I |-> Bit(o, b - 1), o_O |-> Bit(port.io, b - 1)])]),
                      err |-> NoError]
    IN  IF e # NoError THEN [m |-> Module, err |-> e]
        ELSE Bind(MachXO_get_xdr_buffer(Module, pin, FALSE, invert), AddBuffers)

MachXO_get_input_output(pin, port, attrs, invert) ==
    LET e == check_feature("single-ended input/output", pin, attrs, machxo_valid_xdrs, TRUE)
        AddBuffers(r) ==
            IF r.err # NoError THEN [m |-> r.m, err |-> r.err]
            ELSE LET i == r.ret[1]
                     o == r.ret[2]
                     t == r.ret[3]
                 IN  [m   |-> AddInstances(r.m, [b \in 1..PortLen(port) |->
                                 NamedInstance(BufferName(pin, b - 1), "BB",
                                     [i_T |-> t, i_I |-> Bit(o, b - 1), o_O |-> Bit(i, b - 1),
                                      io_B |-> Bit(port.io, b - 1)])]),
                      err |-> NoError]
    IN  IF e # NoError THEN [m |-> Module, err |-> e]
        ELSE Bind(MachXO_get_xdr_buffer(Module, pin, invert, invert), AddBuffers)

MachXO_get_diff_input(pin, port, attrs, invert) ==
    LET e == check_feature("differential input", pin, attrs, machxo_valid_xdrs, TRUE)
        AddBuffers(r) ==
            IF r.err # NoError THEN [m |-> r.m, err |-> r.err]
            ELSE LET i == r.ret[1]
                     o == r.ret[2]
                     t == r.ret[3]
                 IN  [m   |-> AddInstances(r.m, [b \in 1..pin.width |->
                                 NamedInstance(BufferName(pin, b - 1), "IB",
                                     [i_I |-> Bit(port.p, b - 1), o_O |-> Bit(i, b - 1)])]),
                      err |-> NoError]
    IN  IF e # NoError THEN [m |-> Module, err |-> e]
        ELSE Bind(MachXO_get_xdr_buffer(Module, pin, invert, FALSE), AddBuffers)

MachXO_get_diff_output(pin, port, attrs, invert) ==
    LET e == check_feature("differential output", pin, attrs, machxo_valid_xdrs, TRUE)
        AddBuffers(r) ==
            IF r.err # NoError THEN [m |-> r.m, err |-> r.err]
            ELSE LET i == r.ret[1]
                     o == r.ret[2]
                     t == r.ret[3]
                 IN  [m   |-> AddInstances(r.m, [b \in 1..pin.width |->
                                 NamedInstance(BufferName(pin, b - 1), "OB",
                                     [i_I |-> Bit(o, b - 1), o_O |-> Bit(port.p, b - 1)])]),
                      err |-> NoError]
    IN  IF e # NoError THEN [m |-> Module, err |-> e]
        ELSE Bind(MachXO_get_xdr_buffer(Module, pin, FALSE, invert), AddBuffers)

MachXO_get_diff_tristate(pin, port, attrs, invert) ==
    LET e == check_feature("differential tristate", pin, attrs, machxo_valid_xdrs, TRUE)
        AddBuffers(r) ==
            IF r.err # NoError THEN [m |-> r.m, err |-> r.err]
            ELSE LET i == r.ret[1]
                     o == r.ret[2]
                     t == r.ret[3]
                 IN  [m   |-> AddInstances(r.m, [b \in 1..pin.width |->
                                 NamedInstance(BufferName(pin, b - 1), "OBZ",
                                     [i_T |-> t, i_I |-> Bit(o, b - 1), o_O |-> Bit(port.p, b - 1)])]),
                      err |-> NoError]
    IN  IF e # NoError THEN [m |-> Module, err |-> e]
        ELSE Bind(MachXO_get_xdr_buffer(Module, pin, FALSE, invert), AddBuffers)

MachXO_get_diff_input_output(pin, port, attrs, invert) ==
    LET e == check_feature("differential input/output", pin, attrs, machxo_valid_xdrs, TRUE)
        AddBuffers(r) ==
            IF r.err # NoError THEN [m |-> r.m, err |-> r.err]
            ELSE LET i == r.ret[1]
                     o == r.ret[2]
                     t == r.ret[3]
                 IN  [m   |-> AddInstances(r.m, [b \in 1..pin.width |->
                                 NamedInstance(BufferName(pin, b - 1), "BB",
                                     [i_T |-> t, i_I |-> Bit(o, b - 1), o_O |-> Bit(i, b - 1),
                                      io_B |-> Bit(port.p, b - 1)])]),
                      err |-> NoError]
    IN  IF e # NoError THEN [m |-> Module, err |-> e]
        ELSE Bind(MachXO_get_xdr_buffer(Module, pin, invert, invert), AddBuffers)

----------------------------------------------------------------------------
(* ECP5Platform: toolchain selection *)

\* str() of an optional string, as an f-string formats it
Str(v) == IF v = None THEN "None" ELSE v[1]
\* repr() of an optional string, as {v!r} formats it
Repr(v) == IF v = None THEN <<"None">> ELSE <<"'", v[1], "'">>

ToolchainNames == {"Trellis", "Diamond", "Quartus"}
OptToolchains  == {None} \cup {Some(tc) : tc \in ToolchainNames}

trellis_required_tools == <<"yosys", "nextpnr-ecp5", "ecppack">>
\* keys of the template dictionary, in order (the framework's build script
\* templates merged in at the front are not listed)
trellis_file_templates ==
    <<"{{name}}.il", "{{name}}.debug.v", "{{name}}.ys", "{{name}}.lpf">>
trellis_command_templates == <<
    [tool |-> "yosys",
     reads |-> {"{{name}}.ys"}, writes |-> {"{{name}}.rpt", "{{name}}.json"}],
    [tool |-> "nextpnr-ecp5",
     reads |-> {"{{name}}.json", "{{name}}.lpf"},
     writes |-> {"{{name}}.tim", "{{name}}.config"}],
    [tool |-> "ecppack",
     reads |-> {"{{name}}.config"}, writes |-> {"{{name}}.bit", "{{name}}.svf"}] >>

diamond_required_tools == <<"pnmainc", "ddtcmd">>
diamond_file_templates ==
    <<"build_{{name}}.sh", "{{name}}.v", "{{name}}.debug.v", "{{name}}.tcl",
      "{{name}}.lpf", "{{name}}.sdc">>
diamond_command_templates == <<
    [tool |-> "pnmainc",
     reads |-> {"{{name}}.tcl"}, writes |-> {"{{name}}_impl/{{name}}_impl.bit"}],
    [tool |-> "ddtcmd",
     reads |-> {"{{name}}_impl/{{name}}_impl.bit"}, writes |-> {"{{name}}.bit"}],
    [tool |-> "ddtcmd",
     reads |-> {"{{name}}_impl/{{name}}_impl.bit"}, writes |-> {"{{name}}.svf"}] >>

\* LatticeMachXO2Or3LPlatform: file_templates and command_templates are
\* class attributes (Diamond only).  pnmainc runs the
\* rendered {{name}}.tcl, whose exports (Bitgen, Jedecgen) write the .bit and
\* .jed files of {{name}}_impl.
machxo_file_templates ==
    <<"build_{{name}}.sh", "{{name}}.v", "{{name}}.debug.v", "{{name}}.tcl",
      "{{name}}.lpf", "{{name}}.sdc">>
\* Mutant of command_templates: the copy to {{name}}.svf precedes the ddtcmd
\* that writes {{name}}_flash.svf
machxo_command_templates_copy_first == <<
    [tool |-> "pnmainc",
     reads |-> {"{{name}}.tcl"},
     writes |-> {"{{name}}_impl/{{name}}_impl.bit", "{{name}}_impl/{{name}}_impl.jed"}],
    [tool |-> "ddtcmd",
     reads |-> {"{{name}}_impl/{{name}}_impl.bit"}, writes |-> {"{{name}}.bit"}],
    [tool |-> "ddtcmd",
     reads |-> {"{{name}}_impl/{{name}}_impl.jed"}, writes |-> {"{{name}}.jed"}],
    [tool |-> "cp",
     reads |-> {"{{name}}_flash.svf"}, writes |-> {"{{name}}.svf"}],
    [tool |-> "ddtcmd",
     reads |-> {"{{name}}_impl/{{name}}_impl.jed"}, writes |-> {"{{name}}_flash.svf"}],
    [tool |-> "ddtcmd",
     reads |-> {"{{name}}_impl/{{name}}_impl.bit"}, writes |-> {"{{name}}_sram.svf"}] >>
\* the fifth command is cp in a shell script and copy in a batch file
machxo_command_templates == <<
    [tool |-> "pnmainc",
     reads |-> {"{{name}}.tcl"},
     writes |-> {"{{name}}_impl/{{name}}_impl.bit", "{{name}}_impl/{{name}}_impl.jed"}],
    [tool |-> "ddtcmd",
     reads |-> {"{{name}}_impl/{{name}}_impl.bit"}, writes |-> {"{{name}}.bit"}],
    [tool |-> "ddtcmd",
     reads |-> {"{{name}}_impl/{{name}}_impl.jed"}, writes |-> {"{{name}}.jed"}],
    [tool |-> "ddtcmd",
     reads |-> {"{{name}}_impl/{{name}}_impl.jed"}, writes |-> {"{{name}}_flash.svf"}],
    [tool |-> "cp",
     reads |-> {"{{name}}_flash.svf"}, writes |-> {"{{name}}.svf"}],
    [tool |-> "ddtcmd",
     reads |-> {"{{name}}_impl/{{name}}_impl.bit"}, writes |-> {"{{name}}_sram.svf"}] >>

UnknownToolchain(tc) ==
    ValueError(<<"Unknown toolchain '", Str(tc),
                 "', must be either 'Trellis', or 'Diamond'">>)

\* No platform object exists (none constructed yet, or the constructor raised)
NoPlatform == [alive |-> FALSE, cls_toolchain |-> None, toolchain |-> None]

\* ECP5Platform.__init__ of a class whose class-level toolchain attribute is
\* cls, called with keyword toolchain (None: keyword omitted, default 'Trellis').
\* self.toolchain is read before it is assigned, so it is the class attribute.
ECP5Platform_init(cls, kw) ==
    LET toolchain == IF kw = None THEN "Trellis" ELSE kw[1]
        self_toolchain == cls
    IN  IF self_toolchain \notin {Some("Trellis"), Some("Diamond")}
        THEN [self |-> NoPlatform, err |-> UnknownToolchain(self_toolchain)]
        ELSE [self |-> [alive |-> TRUE, cls_toolchain |-> cls,
                        toolchain |-> Some(toolchain)],
              err |-> NoError]

\* The three properties: [ret, err]; ret is None when the function falls off
\* its end.
required_tools(self) ==
    IF self.toolchain \notin {Some("Trellis"), Some("Diamond")}
    THEN [ret |-> <<>>, err |-> UnknownToolchain(self.toolchain)]
    ELSE IF self.toolchain = Some("Trellis")
    THEN [ret |-> Some(trellis_required_tools), err |-> NoError]
    ELSE IF self.toolchain = Some("Diamond")
    THEN [ret |-> Some(diamond_required_tools), err |-> NoError]
    ELSE [ret |-> None, err |-> NoError]

file_templates(self) ==
    IF self.toolchain \notin {Some("Trellis"), Some("Diamond")}
    THEN [ret |-> <<>>, err |-> UnknownToolchain(self.toolchain)]
    ELSE IF self.toolchain = Some("Trellis")
    THEN [ret |-> Some(trellis_file_templates), err |-> NoError]
    ELSE IF self.toolchain = Some("Diamond")
    THEN [ret |-> Some(diamond_file_templates), err |-> NoError]
    ELSE [ret |-> None, err |-> NoError]

\* Mutant of command_templates: the toolchain is not checked first
command_templates_unchecked(self) ==
    IF self.toolchain = Some("Trellis")
    THEN [ret |-> Some(trellis_command_templates), err |-> NoError]
    ELSE IF self.toolchain = Some("Diamond")
    THEN [ret |-> Some(diamond_command_templates), err |-> NoError]
    ELSE [ret |-> None, err |-> NoError]

command_templates(self) ==
    IF self.toolchain \notin {Some("Trellis"), Some("Diamond")}
    THEN [ret |-> <<>>, err |-> UnknownToolchain(self.toolchain)]
    ELSE IF self.toolchain = Some("Trellis")
    THEN [ret |-> Some(trellis_command_templates), err |-> NoError]
    ELSE IF self.toolchain = Some("Diamond")
    THEN [ret |-> Some(diamond_command_templates), err |-> NoError]
    ELSE [ret |-> None, err |-> NoError]

----------------------------------------------------------------------------
(* Resource builders (resources/interface.py).  conn is handed through to   *)
(* every Pins(...) unchanged and is left out.                              *)

\* Subsignal(name, Pins(pins, dir = dir, assert_width = aw)); aw = 0: not given
Subsignal(name, pins, dir, aw) ==
    [kind |-> "Subsignal", name |-> name, pins |-> pins, dir |-> dir,
     invert |-> FALSE, assert_width |-> aw]
\* Subsignal(name, PinsN(...)): the same with inverted (active-low) pins
SubsignalN(name, pins, dir, aw) ==
    [kind |-> "Subsignal", name |-> name, pins |-> pins, dir |-> dir,
     invert |-> TRUE, assert_width |-> aw]
\* Subsignal(name, Pins(pins, dir = dir, invert = inv, assert_width = aw))
SubsignalInv(name, pins, dir, inv, aw) ==
    [kind |-> "Subsignal", name |-> name, pins |-> pins, dir |-> dir,
     invert |-> inv, assert_width |-> aw]
\* an Attrs(...) entry of the io list
AttrsEntry(attrs) ==
    [kind |-> "Attrs", name |-> attrs, pins |-> "", dir |-> "",
     invert |-> FALSE, assert_width |-> 0]

\* io.append(x) when cond
AppendIf(io, cond, x) == IF cond THEN Append(io, x) ELSE io

\* Resource.family(..., default_name = name, ios = io) / Resource(name, n, *io)
Resource(name, io) == [name |-> name, ios |-> io]

Opt(v) == {None, Some(v)}

UARTRoles == {None, Some("dce"), Some("dte"), Some("host")}
UARTArgs == [rx : {"RX"}, tx : {"TX"}, rts : Opt("RTS"), cts : Opt("CTS"),
             dtr : Opt("DTR"), dsr : Opt("DSR"), dcd : Opt("DCD"), ri : Opt("RI"),
             attrs : Opt("IO_TYPE=LVCMOS33"), role : UARTRoles]

\* Mutant of UARTResource: the directions of the two roles are exchanged
UARTResource_swapped(a) ==
    IF (\E line \in {a.rts, a.cts, a.dtr, a.dsr, a.dcd, a.ri} : line # None)
       /\ a.role \notin {Some("dce"), Some("dte")}
    THEN [ret |-> <<>>, err |-> AssertionError]
    ELSE
    LET dce_to_dte == IF a.role = Some("dce") THEN "i" ELSE "o"
        dte_to_dce == IF a.role = Some("dce") THEN "o" ELSE "i"
        io1 == <<Subsignal("rx", a.rx, "i", 1), Subsignal("tx", a.tx, "o", 1)>>
        io2 == AppendIf(io1, a.rts # None, Subsignal("rts", Str(a.rts), dte_to_dce, 1))
        io3 == AppendIf(io2, a.cts # None, Subsignal("cts", Str(a.cts), dce_to_dte, 1))
        io4 == AppendIf(io3, a.dtr # None, Subsignal("dtr", Str(a.dtr), dte_to_dce, 1))
        io5 == AppendIf(io4, a.dsr # None, Subsignal("dsr", Str(a.dsr), dce_to_dte, 1))
        io6 == AppendIf(io5, a.dcd # None, Subsignal("dcd", Str(a.dcd), dce_to_dte, 1))
        io7 == AppendIf(io6, a.ri  # None, Subsignal("ri",  Str(a.ri),  dce_to_dte, 1))
        io8 == AppendIf(io7, a.attrs # None, AttrsEntry(Str(a.attrs)))
    IN  [ret |-> Some(Resource("uart", io8)), err |-> NoError]

\* Mutant of UARTResource: the role is checked whether or not a modem-control
\* line is given
UARTResource_role_always(a) ==
    IF a.role \notin {Some("dce"), Some("dte")}
    THEN [ret |-> <<>>, err |-> AssertionError]
    ELSE
    LET dce_to_dte == IF a.role = Some("dte") THEN "i" ELSE "o"
        dte_to_dce == IF a.role = Some("dte") THEN "o" ELSE "i"
        io1 == <<Subsignal("rx", a.rx, "i", 1), Subsignal("tx", a.tx, "o", 1)>>
        io2 == AppendIf(io1, a.rts # None, Subsignal("rts", Str(a.rts), dte_to_dce, 1))
        io3 == AppendIf(io2, a.cts # None, Subsignal("cts", Str(a.cts), dce_to_dte, 1))
        io4 == AppendIf(io3, a.dtr # None, Subsignal("dtr", Str(a.dtr), dte_to_dce, 1))
        io5 == AppendIf(io4, a.dsr # None, Subsignal("dsr", Str(a.dsr), dce_to_dte, 1))
        io6 == AppendIf(io5, a.dcd # None, Subsignal("dcd", Str(a.dcd), dce_to_dte, 1))
        io7 == AppendIf(io6, a.ri  # None, Subsignal("ri",  Str(a.ri),  dce_to_dte, 1))
        io8 == AppendIf(io7, a.attrs # None, AttrsEntry(Str(a.attrs)))
    IN  [ret |-> Some(Resource("uart", io8)), err |-> NoError]

UARTResource(a) ==
    IF (\E line \in {a.rts, a.cts, a.dtr, a.dsr, a.dcd, a.ri} : line # None)
       /\ a.role \notin {Some("dce"), Some("dte")}
    THEN [ret |-> <<>>, err |-> AssertionError]
    ELSE
    LET dce_to_dte == IF a.role = Some("dte") THEN "i" ELSE "o"
        dte_to_dce == IF a.role = Some("dte") THEN "o" ELSE "i"
        io1 == <<Subsignal("rx", a.rx, "i", 1), Subsignal("tx", a.tx, "o", 1)>>
        io2 == AppendIf(io1, a.rts # None, Subsignal("rts", Str(a.rts), dte_to_dce, 1))
        io3 == AppendIf(io2, a.cts # None, Subsignal("cts", Str(a.cts), dce_to_dte, 1))
        io4 == AppendIf(io3, a.dtr # None, Subsignal("dtr", Str(a.dtr), dte_to_dce, 1))
        io5 == AppendIf(io4, a.dsr # None, Subsignal("dsr", Str(a.dsr), dce_to_dte, 1))
        io6 == AppendIf(io5, a.dcd # None, Subsignal("dcd", Str(a.dcd), dce_to_dte, 1))
        io7 == AppendIf(io6, a.ri  # None, Subsignal("ri",  Str(a.ri),  dce_to_dte, 1))
        io8 == AppendIf(io7, a.attrs # None, AttrsEntry(Str(a.attrs)))
    IN  [ret |-> Some(Resource("uart", io8)), err |-> NoError]

IrDAArgs == [rx : {"RX"}, tx : {"TX"}, en : Opt("EN"), sd : Opt("SD"),
             attrs : Opt("IO_TYPE=LVCMOS33")]

\* Mutant of IrDAResource: or in place of exclusive or
IrDAResource_or(a) ==
    IF ~ ((a.en # None) \/ (a.sd # None))
    THEN [ret |-> <<>>, err |-> AssertionError]
    ELSE
    LET io1 == <<Subsignal("rx", a.rx, "i", 1), Subsignal("tx", a.tx, "o", 1)>>
        io2 == AppendIf(io1, a.en # None, Subsignal("en", Str(a.en), "o", 1))
        io3 == AppendIf(io2, a.sd # None, SubsignalN("en", Str(a.sd), "o", 1))
        io4 == AppendIf(io3, a.attrs # None, AttrsEntry(Str(a.attrs)))
    IN  [ret |-> Some(Resource("irda", io4)), err |-> NoError]

\* Mutant of IrDAResource: the shutdown pin is taken as active-high
IrDAResource_sd_plain(a) ==
    IF ~ ((a.en # None) # (a.sd # None))
    THEN [ret |-> <<>>, err |-> AssertionError]
    ELSE
    LET io1 == <<Subsignal("rx", a.rx, "i", 1), Subsignal("tx", a.tx, "o", 1)>>
        io2 == AppendIf(io1, a.en # None, Subsignal("en", Str(a.en), "o", 1))
        io3 == AppendIf(io2, a.sd # None, Subsignal("en", Str(a.sd), "o", 1))
        io4 == AppendIf(io3, a.attrs # None, AttrsEntry(Str(a.attrs)))
    IN  [ret |-> Some(Resource("irda", io4)), err |-> NoError]

IrDAResource(a) ==
    IF ~ ((a.en # None) # (a.sd # None))
    THEN [ret |-> <<>>, err |-> AssertionError]
    ELSE
    LET io1 == <<Subsignal("rx", a.rx, "i", 1), Subsignal("tx", a.tx, "o", 1)>>
        io2 == AppendIf(io1, a.en # None, Subsignal("en", Str(a.en), "o", 1))
        io3 == AppendIf(io2, a.sd # None, SubsignalN("en", Str(a.sd), "o", 1))
        io4 == AppendIf(io3, a.attrs # None, AttrsEntry(Str(a.attrs)))
    IN  [ret |-> Some(Resource("irda", io4)), err |-> NoError]

SPIRoles == {None, Some("controller"), Some("peripheral"), Some("master")}
SPIArgs == [cs_n : {"CS"}, clk : {"CLK"}, copi : Opt("COPI"), cipo : Opt("CIPO"),
            int : Opt("INT"), reset : Opt("RST"), attrs : Opt("IO_TYPE=LVCMOS33"),
            role : SPIRoles]

\* Mutant of SPIResource: the data-line assertion comes before the role check
SPIResource_assert_first(a) ==
    IF ~ (a.copi # None \/ a.cipo # None)
    THEN [ret |-> <<>>, err |-> AssertionError]
    ELSE IF a.role \notin {Some("controller"), Some("peripheral")}
    THEN [ret |-> <<>>,
          err |-> ValueError(<<"role is expected to be 'controller' or 'peripheral', not ">>
                             \o Repr(a.role))]
    ELSE
    LET ctl == a.role = Some("controller")
        io1 == IF ctl
               THEN <<SubsignalN("cs", a.cs_n, "o", 0), Subsignal("clk", a.clk, "o", 1)>>
               ELSE <<SubsignalN("cs", a.cs_n, "i", 1), Subsignal("clk", a.clk, "i", 1)>>
        io2 == AppendIf(io1, a.copi # None,
                   Subsignal("copi", Str(a.copi), IF ctl THEN "o" ELSE "i", 1))
        io3 == AppendIf(io2, a.cipo # None,
                   Subsignal("cipo", Str(a.cipo), IF ctl THEN "i" ELSE "oe", 1))
        io4 == AppendIf(io3, a.int # None,
                   IF ctl THEN Subsignal("int", Str(a.int), "i", 0)
                          ELSE Subsignal("int", Str(a.int), "oe", 1))
        io5 == AppendIf(io4, a.reset # None,
                   IF ctl THEN Subsignal("reset", Str(a.reset), "o", 0)
                          ELSE Subsignal("reset", Str(a.reset), "i", 1))
        io6 == AppendIf(io5, a.attrs # None, AttrsEntry(Str(a.attrs)))
    IN  [ret |-> Some(Resource("spi", io6)), err |-> NoError]

\* Mutant of SPIResource: the peripheral drives cipo as a plain output
SPIResource_cipo_plain_output(a) ==
    IF a.role \notin {Some("controller"), Some("peripheral")}
    THEN [ret |-> <<>>,
          err |-> ValueError(<<"role is expected to be 'controller' or 'peripheral', not ">>
                             \o Repr(a.role))]
    ELSE IF ~ (a.copi # None \/ a.cipo # None)
    THEN [ret |-> <<>>, err |-> AssertionError]
    ELSE
    LET ctl == a.role = Some("controller")
        io1 == IF ctl
               THEN <<SubsignalN("cs", a.cs_n, "o", 0), Subsignal("clk", a.clk, "o", 1)>>
               ELSE <<SubsignalN("cs", a.cs_n, "i", 1), Subsignal("clk", a.clk, "i", 1)>>
        io2 == AppendIf(io1, a.copi # None,
                   Subsignal("copi", Str(a.copi), IF ctl THEN "o" ELSE "i", 1))
        io3 == AppendIf(io2, a.cipo # None,
                   Subsignal("cipo", Str(a.cipo), IF ctl THEN "i" ELSE "o", 1))
        io4 == AppendIf(io3, a.int # None,
                   IF ctl THEN Subsignal("int", Str(a.int), "i", 0)
                          ELSE Subsignal("int", Str(a.int), "oe", 1))
        io5 == AppendIf(io4, a.reset # None,
                   IF ctl THEN Subsignal("reset", Str(a.reset), "o", 0)
                          ELSE Subsignal("reset", Str(a.reset), "i", 1))
        io6 == AppendIf(io5, a.attrs # None, AttrsEntry(Str(a.attrs)))
    IN  [ret |-> Some(Resource("spi", io6)), err |-> NoError]

SPIResource(a) ==
    IF a.role \notin {Some("controller"), Some("peripheral")}
    THEN [ret |-> <<>>,
          err |-> ValueError(<<"role is expected to be 'controller' or 'peripheral', not ">>
                             \o Repr(a.role))]
    ELSE IF ~ (a.copi # None \/ a.cipo # None)
    THEN [ret |-> <<>>, err |-> AssertionError]
    ELSE
    LET ctl == a.role = Some("controller")
        io1 == IF ctl
               THEN <<SubsignalN("cs", a.cs_n, "o", 0), Subsignal("clk", a.clk, "o", 1)>>
               ELSE <<SubsignalN("cs", a.cs_n, "i", 1), Subsignal("clk", a.clk, "i", 1)>>
        io2 == AppendIf(io1, a.copi # None,
                   Subsignal("copi", Str(a.copi), IF ctl THEN "o" ELSE "i", 1))
        io3 == AppendIf(io2, a.cipo # None,
                   Subsignal("cipo", Str(a.cipo), IF ctl THEN "i" ELSE "oe", 1))
        io4 == AppendIf(io3, a.int # None,
                   IF ctl THEN Subsignal("int", Str(a.int), "i", 0)
                          ELSE Subsignal("int", Str(a.int), "oe", 1))
        io5 == AppendIf(io4, a.reset # None,
                   IF ctl THEN Subsignal("reset", Str(a.reset), "o", 0)
                          ELSE Subsignal("reset", Str(a.reset), "i", 1))
        io6 == AppendIf(io5, a.attrs # None, AttrsEntry(Str(a.attrs)))
    IN  [ret |-> Some(Resource("spi", io6)), err |-> NoError]

ClkDirs == {None, Some("i"), Some("o"), Some("io")}
ULPIArgs == [data : {"D0 D1 D2 D3 D4 D5 D6 D7"}, clk : {"CLK"}, dir : {"DIR"},
             nxt : {"NXT"}, stp : {"STP"}, rst : Opt("RST"), clk_dir : ClkDirs,
             rst_invert : BOOLEAN, attrs : Opt("IO_TYPE=LVCMOS33")]

ULPIResource(a) ==
    IF a.clk_dir \notin {Some("i"), Some("o")}
    THEN [ret |-> <<>>,
          err |-> ValueError(<<"clk_dir should be 'i' or 'o' not ">> \o Repr(a.clk_dir))]
    ELSE
    LET io1 == <<Subsignal("data", a.data, "io", 8),
                 Subsignal("clk", a.clk, Str(a.clk_dir), 1),
                 Subsignal("dir", a.dir, "i", 1),
                 Subsignal("nxt", a.nxt, "i", 1),
                 Subsignal("stp", a.stp, "o", 1)>>
        io2 == AppendIf(io1, a.rst # None,
                   SubsignalInv("rst", Str(a.rst), "o", a.rst_invert, 1))
        io3 == AppendIf(io2, a.attrs # None, AttrsEntry(Str(a.attrs)))
    IN  [ret |-> Some(Resource("usb", io3)), err |-> NoError]

----------------------------------------------------------------------------
(* Encoders and decoders (lib/coding.py).  A fragment is combinational: its *)
(* outputs are a function of its inputs.  A signal that no statement        *)
(* assigns keeps its reset value 0; of several assignments to one signal    *)
(* the last one whose conditions hold wins; a Switch takes the first Case   *)
(* that matches, and the Case without a pattern matches everything.         *)

RECURSIVE Pow2(_)
Pow2(k) == IF k = 0 THEN 1 ELSE 2 * Pow2(k - 1)

\* bits_for(v) for v >= 0: the number of bits that hold v
RECURSIVE bits_for(_)
bits_for(v) == IF v < 2 THEN 1 ELSE 1 + bits_for(v \div 2)

Max(a, b) == IF a >= b THEN a ELSE b

\* s[k] of a signal whose value is v
BitOf(v, k) == (v \div Pow2(k)) % 2

\* signal.eq(v): the value is truncated to the width of the signal
Eq(width, v) == v % Pow2(width)

\* the widths of the signals __init__ creates
Encoder_init(width) ==
    [i |-> width, o |-> bits_for(Max(2, width) - 1), n |-> 1]
Decoder_init(width) ==
    [i |-> bits_for(Max(2, width) - 1), n |-> 1, o |-> width]

\* Mutant of the Switch: the Case without a pattern is missing
RECURSIVE Encoder_switch_no_default(_, _, _)
Encoder_switch_no_default(self, i, j) ==
    IF j = self.i
    THEN [o |-> 0, n |-> 0]
    ELSE IF i = Eq(self.i, Pow2(j))
    THEN [o |-> Eq(self.o, j), n |-> 0]
    ELSE Encoder_switch_no_default(self, i, j + 1)

\* the Switch of Encoder.get_fragment, from Case(1 << j) on
RECURSIVE Encoder_switch(_, _, _)
Encoder_switch(self, i, j) ==
    IF j = self.i
    THEN [o |-> 0, n |-> Eq(self.n, 1)]                 \* Case(): n.eq(1)
    ELSE IF i = Eq(self.i, Pow2(j))
    THEN [o |-> Eq(self.o, j), n |-> 0]                 \* Case(1 << j): o.eq(j)
    ELSE Encoder_switch(self, i, j + 1)

Encoder_get_fragment(width, i) ==
    Encoder_switch(Encoder_init(width), i, 0)

\* Mutant of the loop: the bits are not reversed
RECURSIVE PriorityEncoder_loop_forward(_, _, _, _)
PriorityEncoder_loop_forward(self, i, j, o) ==
    IF j = self.i THEN o
    ELSE PriorityEncoder_loop_forward(self, i, j + 1,
             IF BitOf(i, j) = 1 THEN Eq(self.o, j) ELSE o)

\* the loop of PriorityEncoder.get_fragment: step j looks at bit len(i) - 1 - j
RECURSIVE PriorityEncoder_loop(_, _, _, _)
PriorityEncoder_loop(self, i, j, o) ==
    IF j = self.i THEN o
    ELSE PriorityEncoder_loop(self, i, j + 1,
             IF BitOf(i, self.i - 1 - j) = 1 THEN Eq(self.o, self.i - j - 1) ELSE o)

PriorityEncoder_get_fragment(width, i) ==
    LET self == Encoder_init(width)
    IN  [o |-> PriorityEncoder_loop(self, i, 0, 0),
         n |-> IF i = 0 THEN 1 ELSE 0]

\* the Switch of Decoder.get_fragment, from Case(j) on; no Case without pattern
RECURSIVE Decoder_switch(_, _, _)
Decoder_switch(self, i, j) ==
    IF j = self.o THEN 0
    ELSE IF i = j THEN Eq(self.o, Pow2(j))
    ELSE Decoder_switch(self, i, j + 1)

\* Mutant of Decoder.get_fragment: a selector beyond the last output bit wraps
Decoder_get_fragment_wrap(width, i, n) ==
    LET self == Decoder_init(width)
        o    == Decoder_switch(self, i % width, 0)
    IN  [o |-> IF n # 0 THEN 0 ELSE o]

Decoder_get_fragment(width, i, n) ==
    LET self == Decoder_init(width)
        o    == Decoder_switch(self, i, 0)
    IN  [o |-> IF n # 0 THEN 0 ELSE o]

----------------------------------------------------------------------------
(* create_missing_domain of both platforms: the 'sync' clock domain and its *)
(* reset synchronizer.  The board's class attributes (default_clk,          *)
(* default_rst, oscg_div, osch_frequency) are fields of self; an attribute  *)
(* the board does not define is NoAttr.                                     *)

MaxOscgDiv == 129

NoAttr == [type |-> "missing", val |-> 0]
\* a value of a board attribute: its Python type and its numeric value
PyVal(type, n) == [type |-> type, val |-> n]

\* self.request(name).i: the input signal of the requested resource
request_i(name) == Signal(name, 1)

DomainModule == [submodules |-> <<>>, domains |-> <<>>, comb |-> <<>>]
ClockSignal(name) ==
    [base |-> "ClockSignal", domain |-> name, width |-> 1, ops |-> <<>>, bit |-> -1]
\* m.domains += ClockDomain(name, reset_less = ...); m.d.comb += ClockSignal(name).eq(clk_i)
AddDomain(mod, name, reset_less, clk_i) ==
    [mod EXCEPT !.domains = Append(@, [name |-> name, reset_less |-> reset_less]),
                !.comb = Append(@, [lhs |-> ClockSignal(name), rhs |-> clk_i])]

DomainResult(r, e, req) == [ret |-> r, err |-> e, requested |-> req]

\* Mutant of create_missing_domain: the divider 128 is refused
ECP5_create_missing_domain_below_128(self, name) ==
    IF ~(name = "sync" /\ self.default_clk # None)
    THEN DomainResult(None, NoError, <<>>)
    ELSE IF self.default_clk = Some("OSCG") /\ self.oscg_div = NoAttr
    THEN DomainResult(<<>>,
            ValueError(<<"OSCG divider (oscg_div) must be an integer between 2 and 128">>),
            <<>>)
    ELSE IF /\ self.default_clk = Some("OSCG")
            /\ \/ self.oscg_div.type \notin {"int", "bool"}   \* bool is an int
               \/ self.oscg_div.val < 2
               \/ self.oscg_div.val >= 128
    THEN DomainResult(<<>>,
            ValueError(<<"OSCG divider (oscg_div) must be an integer between 2 and 128, not ",
                         self.oscg_div>>),
            <<>>)
    ELSE LET osc   == self.default_clk = Some("OSCG")
             clk_i == IF osc THEN Signal("clk_i", 1) ELSE request_i(self.default_clk[1])
             req1  == IF osc THEN <<>> ELSE <<self.default_clk[1]>>
             m1    == IF osc
                      THEN AddInstances(DomainModule,
                               <<Instance("OSCG", [p_DIV |-> self.oscg_div.val,
                                                   o_OSC |-> clk_i])>>)
                      ELSE DomainModule
             rst_i == IF self.default_rst # None
                      THEN request_i(self.default_rst[1]) ELSE Const(0)
             req2  == IF self.default_rst # None THEN <<self.default_rst[1]>> ELSE <<>>
             gsr0  == Signal("gsr0", 1)
             gsr1  == Signal("gsr1", 1)
             m2    == AddInstances(m1, <<
                        Instance("FD1S3AX", [p_GSR |-> "DISABLED", i_CK |-> clk_i,
                                             i_D |-> Not(rst_i), o_Q |-> gsr0]),
                        Instance("FD1S3AX", [p_GSR |-> "DISABLED", i_CK |-> clk_i,
                                             i_D |-> gsr0, o_Q |-> gsr1]),
                        Instance("SGSR", [i_CLK |-> clk_i, i_GSR |-> gsr1]) >>)
         IN  DomainResult(Some(AddDomain(m2, "sync", TRUE, clk_i)),
                          NoError, req1 \o req2)

\* Mutant of create_missing_domain: both registers sample the reset input
ECP5_create_missing_domain_unchained(self, name) ==
    IF ~(name = "sync" /\ self.default_clk # None)
    THEN DomainResult(None, NoError, <<>>)
    ELSE IF self.default_clk = Some("OSCG") /\ self.oscg_div = NoAttr
    THEN DomainResult(<<>>,
            ValueError(<<"OSCG divider (oscg_div) must be an integer between 2 and 128">>),
            <<>>)
    ELSE IF /\ self.default_clk = Some("OSCG")
            /\ \/ self.oscg_div.type \notin {"int", "bool"}   \* bool is an int
               \/ self.oscg_div.val < 2
               \/ self.oscg_div.val > 128
    THEN DomainResult(<<>>,
            ValueError(<<"OSCG divider (oscg_div) must be an integer between 2 and 128, not ",
                         self.oscg_div>>),
            <<>>)
    ELSE LET osc   == self.default_clk = Some("OSCG")
             clk_i == IF osc THEN Signal("clk_i", 1) ELSE request_i(self.default_clk[1])
             req1  == IF osc THEN <<>> ELSE <<self.default_clk[1]>>
             m1    == IF osc
                      THEN AddInstances(DomainModule,
                               <<Instance("OSCG", [p_DIV |-> self.oscg_div.val,
                                                   o_OSC |-> clk_i])>>)
                      ELSE DomainModule
             rst_i == IF self.default_rst # None
                      THEN request_i(self.default_rst[1]) ELSE Const(0)
             req2  == IF self.default_rst # None THEN <<self.default_rst[1]>> ELSE <<>>
             gsr0  == Signal("gsr0", 1)
             gsr1  == Signal("gsr1", 1)
             m2    == AddInstances(m1, <<
                        Instance("FD1S3AX", [p_GSR |-> "DISABLED", i_CK |-> clk_i,
                                             i_D |-> Not(rst_i), o_Q |-> gsr0]),
                        Instance("FD1S3AX", [p_GSR |-> "DISABLED", i_CK |-> clk_i,
                                             i_D |-> Not(rst_i), o_Q |-> gsr1]),
                        Instance("SGSR", [i_CLK |-> clk_i, i_GSR |-> gsr1]) >>)
         IN  DomainResult(Some(AddDomain(m2, "sync", TRUE, clk_i)),
                          NoError, req1 \o req2)

ECP5_create_missing_domain(self, name) ==
    IF ~(name = "sync" /\ self.default_clk # None)
    THEN DomainResult(None, NoError, <<>>)
    ELSE IF self.default_clk = Some("OSCG") /\ self.oscg_div = NoAttr
    THEN DomainResult(<<>>,
            ValueError(<<"OSCG divider (oscg_div) must be an integer between 2 and 128">>),
            <<>>)
    ELSE IF /\ self.default_clk = Some("OSCG")
            /\ \/ self.oscg_div.type \notin {"int", "bool"}   \* bool is an int
               \/ self.oscg_div.val < 2
               \/ self.oscg_div.val > 128
    THEN DomainResult(<<>>,
            ValueError(<<"OSCG divider (oscg_div) must be an integer between 2 and 128, not ",
                         self.oscg_div>>),
            <<>>)
    ELSE LET osc   == self.default_clk = Some("OSCG")
             clk_i == IF osc THEN Signal("clk_i", 1) ELSE request_i(self.default_clk[1])
             req1  == IF osc THEN <<>> ELSE <<self.default_clk[1]>>
             m1    == IF osc
                      THEN AddInstances(DomainModule,
                               <<Instance("OSCG", [p_DIV |-> self.oscg_div.val,
                                                   o_OSC |-> clk_i])>>)
                      ELSE DomainModule
             rst_i == IF self.default_rst # None
                      THEN request_i(self.default_rst[1]) ELSE Const(0)
             req2  == IF self.default_rst # None THEN <<self.default_rst[1]>> ELSE <<>>
             gsr0  == Signal("gsr0", 1)
             gsr1  == Signal("gsr1", 1)
             m2    == AddInstances(m1, <<
                        Instance("FD1S3AX", [p_GSR |-> "DISABLED", i_CK |-> clk_i,
                                             i_D |-> Not(rst_i), o_Q |-> gsr0]),
                        Instance("FD1S3AX", [p_GSR |-> "DISABLED", i_CK |-> clk_i,
                                             i_D |-> gsr0, o_Q |-> gsr1]),
                        Instance("SGSR", [i_CLK |-> clk_i, i_GSR |-> gsr1]) >>)
         IN  DomainResult(Some(AddDomain(m2, "sync", TRUE, clk_i)),
                          NoError, req1 \o req2)

\* _supported_osch_freqs, in hundredths of a MHz
supported_osch_freqs == <<
    208, 215, 222, 229, 238, 246, 256, 266, 277, 289,
    302, 317, 333, 350, 369, 391, 416, 429, 443, 459,
    475, 493, 512, 532, 554, 578, 605, 633, 665, 700,
    739, 782, 831, 858, 887, 917, 950, 985, 1023, 1064,
    1108, 1157, 1209, 1267, 1330, 1400, 1478, 1565, 1565, 1663,
    1773, 1900, 2046, 2217, 2418, 2660, 2956, 3325, 3800, 4433,
    5320, 6650, 8867, 13300 >>

\* osch_freq in self._supported_osch_freqs
osch_supported(f) == \E k \in DOMAIN supported_osch_freqs : supported_osch_freqs[k] = f.val
\* "{:.2f}".format(float(osch_freq)): integer part, point, two decimals
osch_freq_param(f) == <<f.val \div 100, ".", (f.val % 100) \div 10, f.val % 10>>

MachXO_create_missing_domain(self, name) ==
    IF ~(name = "sync" /\ self.default_clk # None)
    THEN DomainResult(None, NoError, <<>>)
    ELSE LET using_osch == self.default_clk = Some("OSCH")
             clk_i == IF using_osch THEN Signal("clk_i", 1)
                                    ELSE request_i(self.default_clk[1])
             req1  == IF using_osch THEN <<>> ELSE <<self.default_clk[1]>>
             rst_i == IF self.default_rst # None
                      THEN request_i(self.default_rst[1]) ELSE Const(0)
             req2  == IF self.default_rst # None THEN <<self.default_rst[1]>> ELSE <<>>
             gsr0  == Signal("gsr0", 1)
             gsr1  == Signal("gsr1", 1)
             m1    == AddInstances(DomainModule, <<
                        Instance("FD1S3AX", [p_GSR |-> "DISABLED", i_CK |-> clk_i,
                                             i_D |-> Not(rst_i), o_Q |-> gsr0]),
                        Instance("FD1S3AX", [p_GSR |-> "DISABLED", i_CK |-> clk_i,
                                             i_D |-> gsr0, o_Q |-> gsr1]),
                        Instance("SGSR", [i_CLK |-> clk_i, i_GSR |-> gsr1]) >>)
         IN  IF using_osch /\ self.osch_frequency = NoAttr
             THEN DomainResult(<<>>, [kind |-> "AttributeError", msg |-> <<"osch_frequency">>], req1 \o req2)
             ELSE IF using_osch /\ ~osch_supported(self.osch_frequency)
             THEN DomainResult(<<>>,
                     ValueError(<<"Frequency ", self.osch_frequency,
                                  " is not valid for OSCH clock. Valid frequencies are ",
                                  supported_osch_freqs>>),
                     req1 \o req2)
             ELSE LET m2 == IF using_osch
                            THEN AddInstances(m1, <<
                                   Instance("OSCH",
                                       [p_NOM_FREQ |-> osch_freq_param(self.osch_frequency),
                                        i_STDBY |-> Const(0), o_OSC |-> clk_i,
                                        o_SEDSTDBY |-> Signal("$signal", 1)]) >>)
                            ELSE m1
                  IN  DomainResult(Some(AddDomain(m2, "sync", TRUE, clk_i)),
                                   NoError, req1 \o req2)

\* the boards the calls are made on: their class
\* attributes default_clk, default_rst and oscg_div / osch_frequency
ECP5Boards ==
    [default_clk : {None, Some("OSCG"), Some("clk12")},
     default_rst : {None, Some("rst")},
     oscg_div : {NoAttr, PyVal("bool", 0), PyVal("bool", 1), PyVal("float", 4),
                 PyVal("str", 4)}
                \cup {PyVal("int", n) : n \in (0 - 1)..MaxOscgDiv}]
MachXOBoards ==
    [default_clk : {None, Some("OSCH"), Some("clk12")},
     default_rst : {None, Some("rst")},
     osch_frequency :
        {NoAttr, PyVal("str", 208), PyVal("float", 207), PyVal("float", 1200),
         PyVal("float", 1566), PyVal("float", 13400), PyVal("int", 700),
         PyVal("int", 1200)}
        \cup {PyVal("float", supported_osch_freqs[k]) : k \in DOMAIN supported_osch_freqs}]

----------------------------------------------------------------------------
(* The calls of the build driver.  The driver is single-threaded and        *)
(* synchronous: it makes one call at a time, and takes the call's result   *)
(* (Return) before it makes the next.                                      *)

Init ==
    /\ platform = NoPlatform
    /\ op = "none"
    /\ args = <<>>
    /\ m = Module
    /\ ret = <<>>
    /\ err = NoError
    /\ requested = <<>>

\* platform = Board(toolchain = kw) for a board class with class attribute cls
ECP5Init ==
    /\ op = "none"
    /\ \E cls \in OptToolchains, kw \in OptToolchains :
        LET r == ECP5Platform_init(cls, kw)
        IN  /\ platform' = r.self
            /\ op' = "ECP5Platform.__init__"
            /\ args' = [cls |-> cls, toolchain |-> kw]
            /\ m' = Module
            /\ ret' = <<>>
            /\ err' = r.err
    /\ UNCHANGED requested

ECP5RequiredTools ==
    /\ op = "none"
    /\ platform.alive
    /\ LET r == required_tools(platform)
       IN  /\ op' = "ECP5Platform.required_tools"
           /\ args' = <<>>
           /\ m' = Module
           /\ ret' = r.ret
           /\ err' = r.err
    /\ UNCHANGED <<platform, requested>>

ECP5FileTemplates ==
    /\ op = "none"
    /\ platform.alive
    /\ LET r == file_templates(platform)
       IN  /\ op' = "ECP5Platform.file_templates"
           /\ args' = <<>>
           /\ m' = Module
           /\ ret' = r.ret
           /\ err' = r.err
    /\ UNCHANGED <<platform, requested>>

ECP5CommandTemplates ==
    /\ op = "none"
    /\ platform.alive
    /\ LET r == command_templates(platform)
       IN  /\ op' = "ECP5Platform.command_templates"
           /\ args' = <<>>
           /\ m' = Module
           /\ ret' = r.ret
           /\ err' = r.err
    /\ UNCHANGED <<platform, requested>>

\* platform._get_xdr_buffer(Module(), pin, i_invert = ii, o_invert = oi)
ECP5XdrBuffer ==
    /\ op = "none"
    /\ platform.alive
    /\ \E pin \in Pins, ii \in BOOLEAN, oi \in BOOLEAN :
        LET r == ECP5_get_xdr_buffer(Module, pin, ii, oi)
        IN  /\ op' = "ECP5Platform._get_xdr_buffer"
            /\ args' = [pin |-> pin, i_invert |-> ii, o_invert |-> oi]
            /\ m' = r.m
            /\ ret' = r.ret
            /\ err' = r.err
    /\ UNCHANGED <<platform, requested>>

MachXOXdrBuffer ==
    /\ op = "none"
    /\ \E pin \in Pins, ii \in BOOLEAN, oi \in BOOLEAN :
        LET r == MachXO_get_xdr_buffer(Module, pin, ii, oi)
        IN  /\ op' = "LatticeMachXO2Or3LPlatform._get_xdr_buffer"
            /\ args' = [pin |-> pin, i_invert |-> ii, o_invert |-> oi]
            /\ m' = r.m
            /\ ret' = r.ret
            /\ err' = r.err
    /\ UNCHANGED <<platform, requested>>

CallUART ==
    /\ op = "none"
    /\ \E a \in UARTArgs :
        LET r == UARTResource(a)
        IN  /\ op' = "UARTResource" /\ args' = a /\ m' = Module
            /\ ret' = r.ret /\ err' = r.err
    /\ UNCHANGED <<platform, requested>>

CallIrDA ==
    /\ op = "none"
    /\ \E a \in IrDAArgs :
        LET r == IrDAResource(a)
        IN  /\ op' = "IrDAResource" /\ args' = a /\ m' = Module
            /\ ret' = r.ret /\ err' = r.err
    /\ UNCHANGED <<platform, requested>>

CallSPI ==
    /\ op = "none"
    /\ \E a \in SPIArgs :
        LET r == SPIResource(a)
        IN  /\ op' = "SPIResource" /\ args' = a /\ m' = Module
            /\ ret' = r.ret /\ err' = r.err
    /\ UNCHANGED <<platform, requested>>

CallULPI ==
    /\ op = "none"
    /\ \E a \in ULPIArgs :
        LET r == ULPIResource(a)
        IN  /\ op' = "ULPIResource" /\ args' = a /\ m' = Module
            /\ ret' = r.ret /\ err' = r.err
    /\ UNCHANGED <<platform, requested>>

\* The second layer.  The build framework calls get_input for a pin of
\* direction i, get_output for o, get_tristate for oe and get_input_output for
\* io, with a single-ended port record; the get_diff_ counterparts likewise
\* with a differential port record.
PinsOf(dir) == {pin \in Pins : pin.dir = dir}

ECP5GetInput ==
    /\ op = "none"
    /\ platform.alive
    /\ \E pin \in PinsOf("i"), attrs \in BufferAttrs, invert \in BOOLEAN :
        \E r \in {ECP5_get_input(pin, SinglePort(pin), attrs, invert)} :
            /\ op' = "ECP5Platform.get_input"
            /\ args' = [pin |-> pin, port |-> SinglePort(pin), attrs |-> attrs, invert |-> invert]
            /\ m' = r.m
            /\ ret' = IF r.err = NoError THEN Some(r.m) ELSE <<>>
            /\ err' = r.err
    /\ UNCHANGED <<platform, requested>>

ECP5GetOutput ==
    /\ op = "none"
    /\ platform.alive
    /\ \E pin \in PinsOf("o"), attrs \in BufferAttrs, invert \in BOOLEAN :
        \E r \in {ECP5_get_output(pin, SinglePort(pin), attrs, invert)} :
            /\ op' = "ECP5Platform.get_output"
            /\ args' = [pin |-> pin, port |-> SinglePort(pin), attrs |-> attrs, invert |-> invert]
            /\ m' = r.m
            /\ ret' = IF r.err = NoError THEN Some(r.m) ELSE <<>>
            /\ err' = r.err
    /\ UNCHANGED <<platform, requested>>

ECP5GetTristate ==
    /\ op = "none"
    /\ platform.alive
    /\ \E pin \in PinsOf("oe"), attrs \in BufferAttrs, invert \in BOOLEAN :
        \E r \in {ECP5_get_tristate(pin, SinglePort(pin), attrs, invert)} :
            /\ op' = "ECP5Platform.get_tristate"
            /\ args' = [pin |-> pin, port |-> SinglePort(pin), attrs |-> attrs, invert |-> invert]
            /\ m' = r.m
            /\ ret' = IF r.err = NoError THEN Some(r.m) ELSE <<>>
            /\ err' = r.err
    /\ UNCHANGED <<platform, requested>>

ECP5GetInputOutput ==
    /\ op = "none"
    /\ platform.alive
    /\ \E pin \in PinsOf("io"), attrs \in BufferAttrs, invert \in BOOLEAN :
        \E r \in {ECP5_get_input_output(pin, SinglePort(pin), attrs, invert)} :
            /\ op' = "ECP5Platform.get_input_output"
            /\ args' = [pin |-> pin, port |-> SinglePort(pin), attrs |-> attrs, invert |-> invert]
            /\ m' = r.m
            /\ ret' = IF r.err = NoError THEN Some(r.m) ELSE <<>>
            /\ err' = r.err
    /\ UNCHANGED <<platform, requested>>

ECP5GetDiffInput ==
    /\ op = "none"
    /\ platform.alive
    /\ \E pin \in PinsOf("i"), attrs \in BufferAttrs, invert \in BOOLEAN :
        \E r \in {ECP5_get_diff_input(pin, DiffPort(pin), attrs, invert)} :
            /\ op' = "ECP5Platform.get_diff_input"
            /\ args' = [pin |-> pin, port |-> DiffPort(pin), attrs |-> attrs, invert |-> invert]
            /\ m' = r.m
            /\ ret' = IF r.err = NoError THEN Some(r.m) ELSE <<>>
            /\ err' = r.err
    /\ UNCHANGED <<platform, requested>>

ECP5GetDiffOutput ==
    /\ op = "none"
    /\ platform.alive
    /\ \E pin \in PinsOf("o"), attrs \in BufferAttrs, invert \in BOOLEAN :
        \E r \in {ECP5_get_diff_output(pin, DiffPort(pin), attrs, invert)} :
            /\ op' = "ECP5Platform.get_diff_output"
            /\ args' = [pin |-> pin, port |-> DiffPort(pin), attrs |-> attrs, invert |-> invert]
            /\ m' = r.m
            /\ ret' = IF r.err = NoError THEN Some(r.m) ELSE <<>>
            /\ err' = r.err
    /\ UNCHANGED <<platform, requested>>

ECP5GetDiffTristate ==
    /\ op = "none"
    /\ platform.alive
    /\ \E pin \in PinsOf("oe"), attrs \in BufferAttrs, invert \in BOOLEAN :
        \E r \in {ECP5_get_diff_tristate(pin, DiffPort(pin), attrs, invert)} :
            /\ op' = "ECP5Platform.get_diff_tristate"
            /\ args' = [pin |-> pin, port |-> DiffPort(pin), attrs |-> attrs, invert |-> invert]
            /\ m' = r.m
            /\ ret' = IF r.err = NoError THEN Some(r.m) ELSE <<>>
            /\ err' = r.err
    /\ UNCHANGED <<platform, requested>>

ECP5GetDiffInputOutput ==
    /\ op = "none"
    /\ platform.alive
    /\ \E pin \in PinsOf("io"), attrs \in BufferAttrs, invert \in BOOLEAN :
        \E r \in {ECP5_get_diff_input_output(pin, DiffPort(pin), attrs, invert)} :
            /\ op' = "ECP5Platform.get_diff_input_output"
            /\ args' = [pin |-> pin, port |-> DiffPort(pin), attrs |-> attrs, invert |-> invert]
            /\ m' = r.m
            /\ ret' = IF r.err = NoError THEN Some(r.m) ELSE <<>>
            /\ err' = r.err
    /\ UNCHANGED <<platform, requested>>

MachXOGetInput ==
    /\ op = "none"
    /\ \E pin \in PinsOf("i"), attrs \in BufferAttrs, invert \in BOOLEAN :
        \E r \in {MachXO_get_input(pin, SinglePort(pin), attrs, invert)} :
            /\ op' = "LatticeMachXO2Or3LPlatform.get_input"
            /\ args' = [pin |-> pin, port |-> SinglePort(pin), attrs |-> attrs, invert |-> invert]
            /\ m' = r.m
            /\ ret' = IF r.err = NoError THEN Some(r.m) ELSE <<>>
            /\ err' = r.err
    /\ UNCHANGED <<platform, requested>>

MachXOGetOutput ==
    /\ op = "none"
    /\ \E pin \in PinsOf("o"), attrs \in BufferAttrs, invert \in BOOLEAN :
        \E r \in {MachXO_get_output(pin, SinglePort(pin), attrs, invert)} :
            /\ op' = "LatticeMachXO2Or3LPlatform.get_output"
            /\ args' = [pin |-> pin, port |-> SinglePort(pin), attrs |-> attrs, invert |-> invert]
            /\ m' = r.m
            /\ ret' = IF r.err = NoError THEN Some(r.m) ELSE <<>>
            /\ err' = r.err
    /\ UNCHANGED <<platform, requested>>

MachXOGetTristate ==
    /\ op = "none"
    /\ \E pin \in PinsOf("oe"), attrs \in BufferAttrs, invert \in BOOLEAN :
        \E r \in {MachXO_get_tristate(pin, SinglePort(pin), attrs, invert)} :
            /\ op' = "LatticeMachXO2Or3LPlatform.get_tristate"
            /\ args' = [pin |-> pin, port |-> SinglePort(pin), attrs |-> attrs, invert |-> invert]
            /\ m' = r.m
            /\ ret' = IF r.err = NoError THEN Some(r.m) ELSE <<>>
            /\ err' = r.err
    /\ UNCHANGED <<platform, requested>>

MachXOGetInputOutput ==
    /\ op = "none"
    /\ \E pin \in PinsOf("io"), attrs \in BufferAttrs, invert \in BOOLEAN :
        \E r \in {MachXO_get_input_output(pin, SinglePort(pin), attrs, invert)} :
            /\ op' = "LatticeMachXO2Or3LPlatform.get_input_output"
            /\ args' = [pin |-> pin, port |-> SinglePort(pin), attrs |-> attrs, invert |-> invert]
            /\ m' = r.m
            /\ ret' = IF r.err = NoError THEN Some(r.m) ELSE <<>>
            /\ err' = r.err
    /\ UNCHANGED <<platform, requested>>

MachXOGetDiffInput ==
    /\ op = "none"
    /\ \E pin \in PinsOf("i"), attrs \in BufferAttrs, invert \in BOOLEAN :
        \E r \in {MachXO_get_diff_input(pin, DiffPort(pin), attrs, invert)} :
            /\ op' = "LatticeMachXO2Or3LPlatform.get_diff_input"
            /\ args' = [pin |-> pin, port |-> DiffPort(pin), attrs |-> attrs, invert |-> invert]
            /\ m' = r.m
            /\ ret' = IF r.err = NoError THEN Some(r.m) ELSE <<>>
            /\ err' = r.err
    /\ UNCHANGED <<platform, requested>>

MachXOGetDiffOutput ==
    /\ op = "none"
    /\ \E pin \in PinsOf("o"), attrs \in BufferAttrs, invert \in BOOLEAN :
        \E r \in {MachXO_get_diff_output(pin, DiffPort(pin), attrs, invert)} :
            /\ op' = "LatticeMachXO2Or3LPlatform.get_diff_output"
            /\ args' = [pin |-> pin, port |-> DiffPort(pin), attrs |-> attrs, invert |-> invert]
            /\ m' = r.m
            /\ ret' = IF r.err = NoError THEN Some(r.m) ELSE <<>>
            /\ err' = r.err
    /\ UNCHANGED <<platform, requested>>

MachXOGetDiffTristate ==
    /\ op = "none"
    /\ \E pin \in PinsOf("oe"), attrs \in BufferAttrs, invert \in BOOLEAN :
        \E r \in {MachXO_get_diff_tristate(pin, DiffPort(pin), attrs, invert)} :
            /\ op' = "LatticeMachXO2Or3LPlatform.get_diff_tristate"
            /\ args' = [pin |-> pin, port |-> DiffPort(pin), attrs |-> attrs, invert |-> invert]
            /\ m' = r.m
            /\ ret' = IF r.err = NoError THEN Some(r.m) ELSE <<>>
            /\ err' = r.err
    /\ UNCHANGED <<platform, requested>>

MachXOGetDiffInputOutput ==
    /\ op = "none"
    /\ \E pin \in PinsOf("io"), attrs \in BufferAttrs, invert \in BOOLEAN :
        \E r \in {MachXO_get_diff_input_output(pin, DiffPort(pin), attrs, invert)} :
            /\ op' = "LatticeMachXO2Or3LPlatform.get_diff_input_output"
            /\ args' = [pin |-> pin, port |-> DiffPort(pin), attrs |-> attrs, invert |-> invert]
            /\ m' = r.m
            /\ ret' = IF r.err = NoError THEN Some(r.m) ELSE <<>>
            /\ err' = r.err
    /\ UNCHANGED <<platform, requested>>

\* platform.should_skip_port_component(port, attrs, component); the port itself
\* is not examined
ECP5ShouldSkip ==
    /\ op = "none"
    /\ platform.alive
    /\ \E attrs \in PortAttrs, component \in Components :
        /\ op' = "ECP5Platform.should_skip_port_component"
        /\ args' = [attrs |-> attrs, component |-> component]
        /\ m' = Module
        /\ ret' = Some(ECP5_should_skip_port_component(<<>>, attrs, component))
        /\ err' = NoError
    /\ UNCHANGED <<platform, requested>>

MachXOShouldSkip ==
    /\ op = "none"
    /\ \E attrs \in PortAttrs, component \in Components :
        /\ op' = "LatticeMachXO2Or3LPlatform.should_skip_port_component"
        /\ args' = [attrs |-> attrs, component |-> component]
        /\ m' = Module
        /\ ret' = Some(MachXO_should_skip_port_component(<<>>, attrs, component))
        /\ err' = NoError
    /\ UNCHANGED <<platform, requested>>

\* Encoder(width) evaluated for the input value i
CallEncoder ==
    /\ op = "none"
    /\ \E width \in 1..MaxCodingWidth :
       \E i \in 0..(Pow2(Encoder_init(width).i) - 1) :
        /\ op' = "Encoder"
        /\ args' = [width |-> width, i |-> i]
        /\ m' = Module
        /\ ret' = Some(Encoder_get_fragment(width, i))
        /\ err' = NoError
    /\ UNCHANGED <<platform, requested>>

CallPriorityEncoder ==
    /\ op = "none"
    /\ \E width \in 1..MaxCodingWidth :
       \E i \in 0..(Pow2(Encoder_init(width).i) - 1) :
        /\ op' = "PriorityEncoder"
        /\ args' = [width |-> width, i |-> i]
        /\ m' = Module
        /\ ret' = Some(PriorityEncoder_get_fragment(width, i))
        /\ err' = NoError
    /\ UNCHANGED <<platform, requested>>

\* Decoder(width) evaluated for the input values i and n
CallDecoder ==
    /\ op = "none"
    /\ \E width \in 1..MaxCodingWidth :
       \E i \in 0..(Pow2(Decoder_init(width).i) - 1), n \in 0..1 :
        /\ op' = "Decoder"
        /\ args' = [width |-> width, i |-> i, n |-> n]
        /\ m' = Module
        /\ ret' = Some(Decoder_get_fragment(width, i, n))
        /\ err' = NoError
    /\ UNCHANGED <<platform, requested>>

ECP5CreateMissingDomain ==
    /\ op = "none"
    /\ platform.alive
    /\ \E name \in {"sync", "pix"}, self \in ECP5Boards :
        \E r \in {ECP5_create_missing_domain(self, name)} :
            /\ op' = "ECP5Platform.create_missing_domain"
            /\ args' = [self |-> self, name |-> name]
            /\ m' = Module
            /\ ret' = r.ret
            /\ err' = r.err
            /\ requested' = r.requested
    /\ UNCHANGED platform

MachXOCreateMissingDomain ==
    /\ op = "none"
    /\ \E name \in {"sync", "pix"}, self \in MachXOBoards :
        \E r \in {MachXO_create_missing_domain(self, name)} :
            /\ op' = "LatticeMachXO2Or3LPlatform.create_missing_domain"
            /\ args' = [self |-> self, name |-> name]
            /\ m' = Module
            /\ ret' = r.ret
            /\ err' = r.err
            /\ requested' = r.requested
    /\ UNCHANGED platform

\* a read of the class attribute command_templates of a MachXO board
MachXOCommandTemplates ==
    /\ op = "none"
    /\ op' = "LatticeMachXO2Or3LPlatform.command_templates"
    /\ args' = <<>>
    /\ m' = Module
    /\ ret' = Some(machxo_command_templates)
    /\ err' = NoError
    /\ UNCHANGED <<platform, requested>>

\* the driver has taken the result of the last call
Return ==
    /\ op # "none"
    /\ op' = "none"
    /\ args' = <<>>
    /\ m' = Module
    /\ ret' = <<>>
    /\ err' = NoError
    /\ requested' = <<>>
    /\ UNCHANGED platform

Next ==
    \/ Return
    \/ ECP5Init
    \/ ECP5RequiredTools
    \/ ECP5FileTemplates
    \/ ECP5CommandTemplates
    \/ ECP5XdrBuffer
    \/ MachXOXdrBuffer
    \/ CallUART
    \/ CallIrDA
    \/ CallSPI
    \/ CallULPI
    \/ ECP5GetInput
    \/ ECP5GetOutput
    \/ ECP5GetTristate
    \/ ECP5GetInputOutput
    \/ ECP5GetDiffInput
    \/ ECP5GetDiffOutput
    \/ ECP5GetDiffTristate
    \/ ECP5GetDiffInputOutput
    \/ MachXOGetInput
    \/ MachXOGetOutput
    \/ MachXOGetTristate
    \/ MachXOGetInputOutput
    \/ MachXOGetDiffInput
    \/ MachXOGetDiffOutput
    \/ MachXOGetDiffTristate
    \/ MachXOGetDiffInputOutput
    \/ ECP5ShouldSkip
    \/ MachXOShouldSkip
    \/ CallEncoder
    \/ CallPriorityEncoder
    \/ CallDecoder
    \/ ECP5CreateMissingDomain
    \/ MachXOCreateMissingDomain
    \/ MachXOCommandTemplates

Spec == Init /\ [][Next]_vars

----------------------------------------------------------------------------
(* Properties of the buffer synthesizer *)

IsECP5Xdr   == op = "ECP5Platform._get_xdr_buffer"
IsMachXOXdr == op = "LatticeMachXO2Or3LPlatform._get_xdr_buffer"
IsXdr       == IsECP5Xdr \/ IsMachXOXdr

ECP5Gears == {0, 1, 2, 4, 7}

InputPrimitive(g) ==
    CASE g = 1 -> "IFS1P3DX" [] g = 2 -> "IDDRX1F" [] g = 4 -> "IDDRX2F"
      [] g = 7 -> "IDDR71B" [] OTHER -> "none"
OutputPrimitive(g) ==
    CASE g = 1 -> "OFS1P3DX" [] g = 2 -> "ODDRX1F" [] g = 4 -> "ODDRX2F"
      [] g = 7 -> "ODDR71B" [] OTHER -> "none"

\* An enable register: a register whose data input is derived from pin.oe
IsEnableReg(x) == x.type = "OFS1P3DX" /\ x.ports.i_D.base = "oe"

InputStage(g) ==
    {k \in DOMAIN m.submodules : m.submodules[k].type = InputPrimitive(g)}
OutputStage(g) ==
    {k \in DOMAIN m.submodules :
        m.submodules[k].type = OutputPrimitive(g) /\ ~ IsEnableReg(m.submodules[k])}
EnableStage ==
    {k \in DOMAIN m.submodules : IsEnableReg(m.submodules[k])}

\* exactly one instance of the stage for every bit 0..w-1 of the handle it serves
OnePerBit(stage, port, w) ==
    /\ Cardinality(stage) = w
    /\ \A b \in 0..(w - 1) :
          Cardinality({k \in stage : m.submodules[k].ports[port].bit = b}) = 1

\* C1: ECP5 _get_xdr_buffer, at every supported gear, direction and width: gear 0
\* adds no instance; at gear 1/2/4/7 the input stage adds exactly one
\* IFS1P3DX/IDDRX1F/IDDRX2F/IDDR71B per bit when 'i' is in dir, the output stage
\* exactly one OFS1P3DX/ODDRX1F/ODDRX2F/ODDR71B per bit when 'o' is in dir, the
\* enable stage exactly one OFS1P3DX per bit for dir oe or io; nothing else.
C1_OnePrimitivePerBitPerStage ==
    (IsECP5Xdr /\ args.pin.xdr \in ECP5Gears) =>
        LET pin == args.pin
            g   == pin.xdr
            w   == pin.width
        IN  /\ err = NoError
            /\ g = 0 => m.submodules = <<>>
            /\ g # 0 =>
                /\ OnePerBit(InputStage(g), "i_D", IF HasI(pin.dir) THEN w ELSE 0)
                /\ OnePerBit(OutputStage(g), "o_Q", IF HasO(pin.dir) THEN w ELSE 0)
                /\ OnePerBit(EnableStage, "o_Q", IF HasT(pin.dir) THEN w ELSE 0)
                /\ DOMAIN m.submodules = InputStage(g) \cup OutputStage(g) \cup EnableStage

C1_Witness ==
    /\ IsECP5Xdr
    /\ args.pin.xdr = 7 /\ args.pin.dir = "io" /\ args.pin.width = 2
    /\ Len(m.submodules) = 6
    /\ Cardinality(EnableStage) = 2

\* None exactly when the direction is absent
HandlesPresent(pin) ==
    /\ (ret[1] = NoneSig) <=> ~ HasI(pin.dir)
    /\ (ret[2] = NoneSig) <=> ~ HasO(pin.dir)
    /\ (ret[3] = NoneSig) <=> ~ HasT(pin.dir)

C3_InvalidGearRejected ==
    (IsECP5Xdr /\ args.pin.xdr \notin ECP5Gears) =>
        /\ err.kind = "ValueError"
        /\ Mentions(err, args.pin.name)
        /\ Mentions(err, ToString(args.pin.xdr))
        /\ ret = <<>>

C3_Witness ==
    /\ IsECP5Xdr
    /\ args.pin.xdr = 3 /\ args.i_invert /\ args.o_invert /\ args.pin.dir = "io"
    /\ err.kind = "ValueError"

\* The auxiliary signals and negations of one direction
IStreams == {"i"} \cup {INames[k] : k \in DOMAIN INames}
OStreams == {"o"} \cup {ONames[k] : k \in DOMAIN ONames}
AuxI == {k \in DOMAIN m.signals : m.signals[k].base \in {NSuffix[n] : n \in IStreams}}
AuxO == {k \in DOMAIN m.signals : m.signals[k].base \in {NSuffix[n] : n \in OStreams}}
NegI == {k \in DOMAIN m.comb :
            m.comb[k].lhs.base \in IStreams /\ m.comb[k].rhs.ops = <<"~">>}
NegO == {k \in DOMAIN m.comb :
            m.comb[k].rhs.base \in OStreams /\ m.comb[k].rhs.ops = <<"~">>}

\* The data streams of a gear: i (o) below gear 2, i0..i<g-1> from gear 2 on
StreamsOf(g, one, names) == IF g < 2 THEN {one} ELSE {names[k] : k \in 1..g}

\* The signals wired onward: the handle itself at gear 0, else what the gear
\* stage's primitives capture into (input) or drive from (output)
QPorts == {"o_Q", "o_Q0", "o_Q1", "o_Q2", "o_Q3", "o_Q4", "o_Q5", "o_Q6"}
DPorts == {"i_D", "i_D0", "i_D1", "i_D2", "i_D3", "i_D4", "i_D5", "i_D6"}
InputTypes  == {"IFS1P3DX", "IDDRX1F", "IDDRX2F", "IDDR71B", "IDDRXE"}
OutputTypes == {"OFS1P3DX", "ODDRX1F", "ODDRX2F", "ODDR71B", "ODDRXE"}
WiredI ==
    IF args.pin.xdr = 0 THEN {ret[1].base}
    ELSE UNION {{m.submodules[k].ports[p].base :
                    p \in QPorts \cap DOMAIN m.submodules[k].ports} :
                k \in {j \in DOMAIN m.submodules : m.submodules[j].type \in InputTypes}}
WiredO ==
    IF args.pin.xdr = 0 THEN {ret[2].base}
    ELSE UNION {{m.submodules[k].ports[p].base :
                    p \in DPorts \cap DOMAIN m.submodules[k].ports} :
                k \in {j \in DOMAIN m.submodules :
                          /\ m.submodules[j].type \in OutputTypes
                          /\ ~ IsEnableReg(m.submodules[j])}}

\* C4 as stated: on both platforms and at every supported gear, a set inversion
\* flag of a direction present in pin.dir introduces exactly one auxiliary
\* signal and exactly one negation for that direction; an unset flag introduces
\* none and the original pin signal is wired onward; the two flags are
\* independent.
C4_OneAuxiliaryPerDirection ==
    (IsXdr /\ err = NoError) =>
        LET pin == args.pin
            g   == pin.xdr
        IN  /\ HasI(pin.dir) =>
                /\ Cardinality(AuxI) = IF args.i_invert THEN 1 ELSE 0
                /\ Cardinality(NegI) = IF args.i_invert THEN 1 ELSE 0
                /\ ~ args.i_invert => WiredI = StreamsOf(g, "i", INames)
            /\ HasO(pin.dir) =>
                /\ Cardinality(AuxO) = IF args.o_invert THEN 1 ELSE 0
                /\ Cardinality(NegO) = IF args.o_invert THEN 1 ELSE 0
                /\ ~ args.o_invert => WiredO = StreamsOf(g, "o", ONames)

\* C4 amended: a set inversion flag of a direction present in pin.dir introduces
\* exactly one auxiliary signal and one negation per data stream of that
\* direction (one at gear 0 and 1, g at gear g >= 2), and the auxiliary signals
\* are the ones wired onward; an unset flag, or a direction absent from pin.dir,
\* introduces none, and the original pin signals are wired onward; the two
\* flags are independent.
C4_OneAuxiliaryPerStream ==
    (IsXdr /\ err = NoError) =>
        LET pin == args.pin
            g   == pin.xdr
            n   == IF g < 2 THEN 1 ELSE g
            si  == StreamsOf(g, "i", INames)
            so  == StreamsOf(g, "o", ONames)
            ion == HasI(pin.dir) /\ args.i_invert
            oon == HasO(pin.dir) /\ args.o_invert
        IN  /\ Cardinality(AuxI) = IF ion THEN n ELSE 0
            /\ Cardinality(NegI) = IF ion THEN n ELSE 0
            /\ Cardinality(AuxO) = IF oon THEN n ELSE 0
            /\ Cardinality(NegO) = IF oon THEN n ELSE 0
            /\ Len(m.comb) = Cardinality(NegI) + Cardinality(NegO)
            /\ HasI(pin.dir) =>
                  WiredI = IF args.i_invert THEN {NSuffix[s] : s \in si} ELSE si
            /\ HasO(pin.dir) =>
                  WiredO = IF args.o_invert THEN {NSuffix[s] : s \in so} ELSE so

C4_Witness ==
    /\ IsECP5Xdr /\ err = NoError
    /\ args.pin.xdr = 4 /\ args.pin.dir = "io"
    /\ args.i_invert /\ ~ args.o_invert
    /\ Cardinality(AuxI) = 4 /\ Cardinality(NegI) = 4
    /\ AuxO = {} /\ NegO = {}

----------------------------------------------------------------------------
(* Properties of the ECP5 toolchain selection *)

IsInit == op = "ECP5Platform.__init__"
KnownToolchains == {Some("Trellis"), Some("Diamond")}

\* C5: constructing an ECP5 platform of a class that leaves the class-level
\* toolchain attribute at None, with toolchain 'Trellis' or 'Diamond' or with no
\* argument (default 'Trellis'), succeeds, and the platform's toolchain is then
\* the value passed.
C5_ConstructionSelectsToolchain ==
    (IsInit /\ args.cls = None /\ args.toolchain \in KnownToolchains \cup {None}) =>
        /\ err = NoError
        /\ platform.alive
        /\ platform.toolchain =
              IF args.toolchain = None THEN Some("Trellis") ELSE args.toolchain

\* C6: constructing an ECP5 platform with a toolchain argument that is neither
\* 'Trellis' nor 'Diamond' raises ValueError whatever the class-level attribute
\* is, and no platform object with an unrecognized toolchain ever exists.
C6_UnknownToolchainRejected ==
    /\ (IsInit /\ args.toolchain \notin KnownToolchains \cup {None}) =>
          (err.kind = "ValueError" /\ ~ platform.alive)
    /\ platform.alive => platform.toolchain \in KnownToolchains

\* C7: required_tools, file_templates and command_templates follow the same
\* toolchain identifier: the Trellis tables ([yosys, nextpnr-ecp5, ecppack] for
\* the tools) with 'Trellis', the Diamond tables ([pnmainc, ddtcmd]) with
\* 'Diamond', and with any other toolchain each raises ValueError; none returns
\* None or a table of the other toolchain.
C7_TablesFollowToolchain ==
    LET tc == platform.toolchain
        Selects(trellis, diamond) ==
            IF tc = Some("Trellis") THEN err = NoError /\ ret = Some(trellis)
            ELSE IF tc = Some("Diamond") THEN err = NoError /\ ret = Some(diamond)
            ELSE err.kind = "ValueError" /\ ret = <<>>
    IN  /\ op = "ECP5Platform.required_tools" =>
              Selects(<<"yosys", "nextpnr-ecp5", "ecppack">>, <<"pnmainc", "ddtcmd">>)
        /\ op = "ECP5Platform.file_templates" =>
              Selects(trellis_file_templates, diamond_file_templates)
        /\ op = "ECP5Platform.command_templates" =>
              Selects(trellis_command_templates, diamond_command_templates)
        /\ trellis_file_templates # diamond_file_templates
        /\ trellis_command_templates # diamond_command_templates

C7_Witness ==
    /\ op = "ECP5Platform.command_templates"
    /\ platform.toolchain = Some("Diamond")
    /\ ret = Some(diamond_command_templates)
    /\ ret[1][1].tool = "pnmainc"

----------------------------------------------------------------------------
(* Properties of the resource builders *)

\* A call is rejected: it raised (ValueError, or the AssertionError of a failed
\* assert) and built no resource
Rejected == err.kind \in {"ValueError", "AssertionError"} /\ ret = <<>>
Accepted == err = NoError /\ ret # <<>>

\* the sub-signals of the resource returned, without the Attrs entry
Subsignals == SelectSeq(ret[1].ios, LAMBDA x : x.kind = "Subsignal")
SubsignalNames == [k \in DOMAIN Subsignals |-> Subsignals[k].name]
SubsignalDirs  == [k \in DOMAIN Subsignals |-> Subsignals[k].dir]

ModemLines == {"rts", "cts", "dtr", "dsr", "dcd", "ri"}

\* C9: UARTResource with only rx and tx yields exactly the two sub-signals rx
\* (input) and tx (output); with rts and cts in addition exactly rx, tx, rts,
\* cts in that order, rts an output and cts an input for role 'dte', rts an
\* input and cts an output for role 'dce'; each of rts/cts/dtr/dsr/dcd/ri is in
\* the list if and only if it was supplied.
C9_UARTSubsignals ==
    op = "UARTResource" =>
        LET NoneBut(S) == \A l \in ModemLines : (args[l] # None) <=> (l \in S)
        IN  /\ NoneBut({}) =>
                /\ Accepted
                /\ SubsignalNames = <<"rx", "tx">>
                /\ SubsignalDirs = <<"i", "o">>
            /\ (NoneBut({"rts", "cts"}) /\ args.role = Some("dte")) =>
                /\ Accepted
                /\ SubsignalNames = <<"rx", "tx", "rts", "cts">>
                /\ SubsignalDirs = <<"i", "o", "o", "i">>
            /\ (NoneBut({"rts", "cts"}) /\ args.role = Some("dce")) =>
                /\ Accepted
                /\ SubsignalNames = <<"rx", "tx", "rts", "cts">>
                /\ SubsignalDirs = <<"i", "o", "i", "o">>
            /\ Accepted =>
                  \A l \in ModemLines :
                      (\E k \in DOMAIN Subsignals : Subsignals[k].name = l)
                          <=> args[l] # None

C9_Witness ==
    /\ op = "UARTResource" /\ Accepted
    /\ args.role = Some("dce")
    /\ args.rts # None /\ args.cts # None
    /\ args.dtr = None /\ args.dsr = None /\ args.dcd = None /\ args.ri = None
    /\ Len(Subsignals) = 4

\* C10: SPIResource with a role outside {'controller', 'peripheral'} and
\* ULPIResource with a clk_dir outside {'i', 'o'} raise ValueError naming the
\* offending value, before any sub-signal is built, whatever the other
\* arguments are.
C10_RoleEnumRejected ==
    /\ (op = "SPIResource" /\ args.role \notin {Some("controller"), Some("peripheral")}) =>
          /\ err.kind = "ValueError"
          /\ Mentions(err, Str(args.role))
          /\ ret = <<>>
    /\ (op = "ULPIResource" /\ args.clk_dir \notin {Some("i"), Some("o")}) =>
          /\ err.kind = "ValueError"
          /\ Mentions(err, Str(args.clk_dir))
          /\ ret = <<>>

C10_Witness ==
    /\ op = "SPIResource"
    /\ args.role = Some("master")
    /\ args.copi = None /\ args.cipo = None
    /\ err.kind = "ValueError"

\* The capture ports Q_k of an input primitive and the data ports D_k of an
\* output primitive at gear g, in stream order
QNames == <<"o_Q0", "o_Q1", "o_Q2", "o_Q3", "o_Q4", "o_Q5", "o_Q6">>
DNames == <<"i_D0", "i_D1", "i_D2", "i_D3", "i_D4", "i_D5", "i_D6">>
QPortsAt(g) == IF g = 1 THEN <<"o_Q">> ELSE SubSeq(QNames, 1, g)
DPortsAt(g) == IF g = 1 THEN <<"i_D">> ELSE SubSeq(DNames, 1, g)
IStreamsAt(g) == IF g = 1 THEN <<"i">> ELSE SubSeq(INames, 1, g)
OStreamsAt(g) == IF g = 1 THEN <<"o">> ELSE SubSeq(ONames, 1, g)
Range(s) == {s[k] : k \in DOMAIN s}

ClockPorts == {"i_SCLK", "i_ECLK"}
ClockBases == {"i_clk", "o_clk", "i_fclk", "o_fclk"}
\* the ports of x that carry one of the pin's clocks
ClockedBy(x) == {p \in DOMAIN x.ports : x.ports[p].base \in ClockBases}

\* the stream signal of the pin, or its inversion auxiliary when the flag is set
StreamSig(name, invert) ==
    Signal(IF invert THEN NSuffix[name] ELSE name, args.pin.width)

\* x is clocked by sclk alone below gear 4, and by sclk as SCLK and eclk as ECLK
\* at gear 4 and 7
GearClocks(x, g, sclk, eclk) ==
    /\ x.ports.i_SCLK = sclk
    /\ IF g \in {4, 7}
       THEN ClockedBy(x) = {"i_SCLK", "i_ECLK"} /\ x.ports.i_ECLK = eclk
       ELSE ClockedBy(x) = {"i_SCLK"}
    /\ DOMAIN x.ports \cap ClockPorts = ClockedBy(x)

\* C12: ECP5 gear stages.  The gear-1 and gear-2 primitives are clocked by the
\* primary clock alone (pin.i_clk on the input side, pin.o_clk on the output
\* side) and carry 1 and 2 data streams; the gear-4 and gear-7 primitives take
\* the primary clock as SCLK and the fast clock (pin.i_fclk / pin.o_fclk) as
\* ECLK and carry exactly 4 and 7 streams; stream k is wired to port Q_k / D_k
\* for every k, bit b of every stream to the instance of bit b; every enable
\* register is clocked by pin.o_clk and its data input is NOT pin.oe.
C12_GearClocksAndStreams ==
    (IsECP5Xdr /\ args.pin.xdr \in {1, 2, 4, 7}) =>
        LET pin == args.pin
            g   == pin.xdr
            n   == IF g = 1 THEN 1 ELSE g
        IN  /\ \A k \in InputStage(g) :
                  LET x == m.submodules[k]
                  IN  /\ GearClocks(x, g, PinIClk(pin), PinIFClk(pin))
                      /\ DOMAIN x.ports \cap QPorts = Range(QPortsAt(g))
                      /\ Len(QPortsAt(g)) = n
                      /\ \A s \in 1..n :
                            x.ports[QPortsAt(g)[s]] =
                                Bit(StreamSig(IStreamsAt(g)[s], args.i_invert),
                                    x.ports.i_D.bit)
            /\ \A k \in OutputStage(g) :
                  LET x == m.submodules[k]
                  IN  /\ GearClocks(x, g, PinOClk(pin), PinOFClk(pin))
                      /\ DOMAIN x.ports \cap DPorts = Range(DPortsAt(g))
                      /\ Len(DPortsAt(g)) = n
                      /\ \A s \in 1..n :
                            x.ports[DPortsAt(g)[s]] =
                                Bit(StreamSig(OStreamsAt(g)[s], args.o_invert),
                                    x.ports.o_Q.bit)
            /\ \A k \in EnableStage :
                  LET x == m.submodules[k]
                  IN  /\ ClockedBy(x) = {"i_SCLK"}
                      /\ x.ports.i_SCLK = PinOClk(pin)
                      /\ x.ports.i_D = Not(PinOe(pin))

C12_Witness ==
    /\ IsECP5Xdr /\ err = NoError
    /\ args.pin.xdr = 7 /\ args.pin.dir = "io" /\ args.pin.width = 2
    /\ ~ args.i_invert /\ ~ args.o_invert
    /\ Cardinality(InputStage(7)) = 2 /\ Cardinality(OutputStage(7)) = 2
    /\ Cardinality(EnableStage) = 2
    /\ \E k \in InputStage(7) :
          /\ m.submodules[k].ports.o_Q6 = Bit(PinSig(args.pin, "i6"), 1)
          /\ m.submodules[k].ports.i_ECLK = PinIFClk(args.pin)

----------------------------------------------------------------------------
(* Properties of the second layer *)

ECP5GetterOps ==
    {"ECP5Platform.get_input", "ECP5Platform.get_output",
     "ECP5Platform.get_tristate", "ECP5Platform.get_input_output"}
ECP5DiffGetterOps ==
    {"ECP5Platform.get_diff_input", "ECP5Platform.get_diff_output",
     "ECP5Platform.get_diff_tristate", "ECP5Platform.get_diff_input_output"}
MachXOGetterOps ==
    {"LatticeMachXO2Or3LPlatform.get_input", "LatticeMachXO2Or3LPlatform.get_output",
     "LatticeMachXO2Or3LPlatform.get_tristate",
     "LatticeMachXO2Or3LPlatform.get_input_output"}
MachXODiffGetterOps ==
    {"LatticeMachXO2Or3LPlatform.get_diff_input",
     "LatticeMachXO2Or3LPlatform.get_diff_output",
     "LatticeMachXO2Or3LPlatform.get_diff_tristate",
     "LatticeMachXO2Or3LPlatform.get_diff_input_output"}
DiffGetterOps == ECP5DiffGetterOps \cup MachXODiffGetterOps
IsECP5Getter   == op \in ECP5GetterOps \cup ECP5DiffGetterOps
IsMachXOGetter == op \in MachXOGetterOps \cup MachXODiffGetterOps
IsGetter       == IsECP5Getter \/ IsMachXOGetter

BufferTypes == {"IB", "OB", "OBZ", "BB"}
BufferType(dir) ==
    CASE dir = "i" -> "IB" [] dir = "o" -> "OB" [] dir = "oe" -> "OBZ" [] OTHER -> "BB"

\* the buffer primitives of the module, and the one named '<pin name>_<bit>'
Buffers == {k \in DOMAIN m.submodules : m.submodules[k].type \in BufferTypes}
BuffersOf(b) == {k \in Buffers : m.submodules[k].name = BufferName(args.pin, b)}

\* the leg of the port a buffer of this call sits on
PortLeg == IF op \in DiffGetterOps THEN args.port.p ELSE args.port.io
\* the port-side connection of a buffer
PadOf(x) == IF x.type = "BB" THEN x.ports.io_B
            ELSE IF x.type = "IB" THEN x.ports.i_I ELSE x.ports.o_O

\* Bit b of pin.i is the value the buffer x receives, complemented iff invert:
\* x drives bit b of pin.i itself, or (invert) bit b of a signal a with the one
\* statement pin.i = ~a.
InputPassthrough(x, b) ==
    LET q    == x.ports.o_O
        pini == PinSig(args.pin, "i")
        toI  == {k \in DOMAIN m.comb : m.comb[k].lhs.base = "i"}
    IN  /\ q.bit = b /\ q.ops = <<>> /\ q.width = args.pin.width
        /\ IF args.invert
           THEN /\ q.base # "i"
                /\ Cardinality(toI) = 1
                /\ \A k \in toI : m.comb[k] = [lhs |-> pini, rhs |-> Not(Bit(q, -1))]
           ELSE /\ q = Bit(pini, b)
                /\ toI = {}

\* The buffer x sends bit b of pin.o, complemented iff invert: its input is bit
\* b of pin.o itself, or (invert) bit b of a signal z with the one statement
\* z = ~pin.o.
OutputPassthrough(x, b) ==
    LET d    == x.ports.i_I
        pino == PinSig(args.pin, "o")
        toD  == {k \in DOMAIN m.comb : m.comb[k].lhs.base = d.base}
    IN  /\ d.bit = b /\ d.ops = <<>> /\ d.width = args.pin.width
        /\ IF args.invert
           THEN /\ d.base # "o"
                /\ Cardinality(toD) = 1
                /\ \A k \in toD : m.comb[k] = [lhs |-> Bit(d, -1), rhs |-> Not(pino)]
           ELSE /\ d = Bit(pino, b)
                /\ toD = {}

\* e is the complement of the one-bit pin.oe, as seen by bit b: ~pin.oe itself,
\* or bit b of ~pin.oe.replicate(width)
IsNotOe(e, b) ==
    \/ e = Not(PinOe(args.pin))
    \/ e = Bit(Not(Replicate(PinOe(args.pin), args.pin.width)), b)

\* C11: at gear 0, on both platforms, every getter of the second layer is a
\* direct passthrough: the module holds the w buffers and no register or other
\* instance; bit b of pin.i is bit b of the port (complemented iff invert), bit b
\* of the port is driven with bit b of pin.o (complemented iff invert), and for
\* directions oe and io the T input of every bit's buffer is NOT pin.oe.
C11_GearZeroPassthrough ==
    (IsGetter /\ args.pin.xdr = 0) =>
        LET pin == args.pin
            w   == pin.width
        IN  /\ err = NoError
            /\ Len(m.submodules) = w
            /\ Buffers = DOMAIN m.submodules
            /\ \A b \in 0..(w - 1) :
                  /\ Cardinality(BuffersOf(b)) = 1
                  /\ \A k \in BuffersOf(b) :
                        LET x == m.submodules[k]
                        IN  /\ x.type = BufferType(pin.dir)
                            /\ PadOf(x) = Bit(PortLeg, b)
                            /\ HasI(pin.dir) => InputPassthrough(x, b)
                            /\ HasO(pin.dir) => OutputPassthrough(x, b)
                            /\ HasT(pin.dir) => IsNotOe(x.ports.i_T, b)

C11_Witness ==
    /\ op = "LatticeMachXO2Or3LPlatform.get_input_output"
    /\ args.pin.xdr = 0 /\ args.pin.width = 2 /\ args.invert
    /\ err = NoError
    /\ Len(m.submodules) = 2
    /\ Len(m.comb) = 2
    /\ m.submodules[2].ports.i_T = Not(PinOe(args.pin))

\* C14: MachXO _get_xdr_buffer with a gear outside {0, 1, 2} fails, returns no
\* triple, and the error names the offending pin and the invalid gear value.
C14_MachXOInvalidGearNamed ==
    (IsMachXOXdr /\ args.pin.xdr \notin {0, 1, 2}) =>
        /\ err.kind \in {"ValueError", "AssertionError"}
        /\ ret = <<>>
        /\ Mentions(err, args.pin.name)
        /\ Mentions(err, ToString(args.pin.xdr))

\* the primitive each ECP5 single-ended getter is to instantiate
ECP5BufferOf(o) ==
    CASE o = "ECP5Platform.get_input"    -> "IB"
      [] o = "ECP5Platform.get_output"   -> "OB"
      [] o = "ECP5Platform.get_tristate" -> "OBZ"
      [] OTHER                           -> "BB"

\* the triple the gear stage returns for the pin of this call
GearStage ==
    ECP5_get_xdr_buffer(Module, args.pin, HasI(args.pin.dir) /\ args.invert,
                        HasO(args.pin.dir) /\ args.invert).ret

\* C15: the ECP5 single-ended getters get_input, get_output, get_tristate and
\* get_input_output, at every supported gear: for a pin of width w the module
\* holds exactly w buffer primitives, one per bit, named '<pin name>_<bit>', of
\* type IB, OB, OBZ, BB respectively; the buffer of bit b connects bit b of the
\* gear stage's i and/or o to bit b of port.io, and for OBZ and BB its T input
\* to bit b of the gear stage's t.
C15_ECP5OneBufferPerBit ==
    (op \in ECP5GetterOps /\ args.pin.xdr \in ECP5Gears) =>
        LET pin == args.pin
            w   == pin.width
            g   == pin.xdr
        IN  /\ err = NoError
            /\ Cardinality(Buffers) = w
            /\ DOMAIN m.submodules \ Buffers =
                  InputStage(g) \cup OutputStage(g) \cup EnableStage
            /\ \A b \in 0..(w - 1) :
                  /\ Cardinality(BuffersOf(b)) = 1
                  /\ \A k \in BuffersOf(b) :
                        LET x == m.submodules[k]
                        IN  /\ x.type = ECP5BufferOf(op)
                            /\ PadOf(x) = Bit(args.port.io, b)
                            /\ x.type \in {"IB", "BB"} =>
                                  x.ports.o_O = Bit(GearStage[1], b)
                            /\ x.type \in {"OB", "OBZ", "BB"} =>
                                  x.ports.i_I = Bit(GearStage[2], b)
                            /\ x.type \in {"OBZ", "BB"} =>
                                  x.ports.i_T = Bit(GearStage[3], b)
                            /\ x.type \in {"IB", "OB"} =>
                                  "i_T" \notin DOMAIN x.ports

C15_Witness ==
    /\ op = "ECP5Platform.get_input_output"
    /\ args.pin.xdr = 4 /\ args.pin.width = 2 /\ err = NoError
    /\ Cardinality(Buffers) = 2
    /\ Len(m.submodules) = 8
    /\ \E k \in Buffers :
          /\ m.submodules[k].name = <<"x", "_", "1">>
          /\ m.submodules[k].type = "BB"
          /\ m.submodules[k].ports.i_T = Bit(Signal("xdr_t", 2), 1)
          /\ m.submodules[k].ports.io_B = Bit(Signal("port.io", 2), 1)

DiffTristateOps ==
    {"ECP5Platform.get_diff_tristate", "ECP5Platform.get_diff_input_output",
     "LatticeMachXO2Or3LPlatform.get_diff_tristate",
     "LatticeMachXO2Or3LPlatform.get_diff_input_output"}

\* the IO_TYPE of the call, LVCMOS25 when absent, is in the platform's catalog
InDifferentialCatalog ==
    AttrsGet(args.attrs, "LVCMOS25") \in
        (IF IsECP5Getter THEN ecp5_differential_io_types
                         ELSE machxo_differential_io_types)

\* the buffers on bit b of one leg of the port
BuffersOn(leg, b) == {k \in Buffers : PadOf(m.submodules[k]) = Bit(leg, b)}
NegativeLeg == {k \in Buffers : PadOf(m.submodules[k]).base = "port.n"}

MachXOTristateOps ==
    {"LatticeMachXO2Or3LPlatform.get_tristate",
     "LatticeMachXO2Or3LPlatform.get_input_output",
     "LatticeMachXO2Or3LPlatform.get_diff_tristate",
     "LatticeMachXO2Or3LPlatform.get_diff_input_output"}

\* e and q denote the same one-bit value: the same bit of the same signal,
\* where a one-bit signal is its own bit 0
SameBit(e, q) ==
    /\ e.base = q.base /\ e.ops = q.ops /\ e.width = q.width
    /\ \/ e.bit = q.bit
       \/ e.width = 1 /\ {e.bit, q.bit} \subseteq {-1, 0}

IsShouldSkip ==
    op \in {"ECP5Platform.should_skip_port_component",
            "LatticeMachXO2Or3LPlatform.should_skip_port_component"}

\* the differential and the single-ended catalog of the platform of this call
CatalogOfCall ==
    IF op = "ECP5Platform.should_skip_port_component"
    THEN ecp5_differential_io_types ELSE machxo_differential_io_types
SingleEndedOfCall ==
    IF op = "ECP5Platform.should_skip_port_component"
    THEN ecp5_single_ended_io_types ELSE machxo_single_ended_io_types

\* C20: should_skip_port_component (both platforms) returns true if and only if
\* the component is 'n' and the port's IO_TYPE, taken as 'LVCMOS25' when absent,
\* is in the platform's _differential_io_types; so it is false for every
\* component other than 'n', false when IO_TYPE is absent, and false for every
\* single-ended IO_TYPE.
C20_SkipOnlyDifferentialNegative ==
    IsShouldSkip =>
        LET io == IF args.attrs.IO_TYPE = None THEN "LVCMOS25"
                  ELSE args.attrs.IO_TYPE[1]
        IN  /\ err = NoError
            /\ ret[1] \in BOOLEAN
            /\ ret[1] <=> (args.component = "n" /\ io \in CatalogOfCall)
            /\ args.component # "n" => ret[1] = FALSE
            /\ args.attrs.IO_TYPE = None => ret[1] = FALSE
            /\ io \in SingleEndedOfCall => ret[1] = FALSE

C20_Witness ==
    /\ op = "LatticeMachXO2Or3LPlatform.should_skip_port_component"
    /\ args.component = "n"
    /\ args.attrs.IO_TYPE = Some("MIPI")
    /\ ret = Some(TRUE)

----------------------------------------------------------------------------
(* Properties of the encoders and decoders *)

\* the indices of the asserted bits of a width-bit value
Asserted(v, width) == {j \in 0..(width - 1) : BitOf(v, j) = 1}

\* C17: Encoder of width w, for every input i in 0..2^w-1: if exactly one bit j
\* of i is asserted then n = 0 and o = j; otherwise (no bit, or several bits)
\* n = 1 and o = 0.
C17_EncoderOneHot ==
    (op = "Encoder") =>
        LET hot == Asserted(args.i, args.width)
        IN  IF Cardinality(hot) = 1
            THEN ret[1].n = 0 /\ hot = {ret[1].o}
            ELSE ret[1].n = 1 /\ ret[1].o = 0

C17_Witness ==
    /\ op = "Encoder"
    /\ args.width = 3 /\ args.i = 4
    /\ ret = Some([o |-> 2, n |-> 0])

\* C18: PriorityEncoder of width w, for every input i in 0..2^w-1: if any bit is
\* asserted then n = 0 and o is the index of the least significant asserted
\* bit; if i = 0 then n = 1 and o = 0.
C18_PriorityEncoderLowestBit ==
    (op = "PriorityEncoder") =>
        LET hot == Asserted(args.i, args.width)
        IN  IF hot # {}
            THEN /\ ret[1].n = 0
                 /\ ret[1].o \in hot
                 /\ \A j \in hot : ret[1].o <= j
            ELSE ret[1].n = 1 /\ ret[1].o = 0

C18_Witness ==
    /\ op = "PriorityEncoder"
    /\ args.width = 3 /\ args.i = 6
    /\ ret = Some([o |-> 1, n |-> 0])

\* C19 as stated: Decoder of width w, for every value of i its signal can hold
\* (0..2^bits(i)-1) with n low, exactly one bit of o is asserted and it is bit
\* i; with n high, o = 0 for every i.
C19_DecoderAlwaysOneHot ==
    (op = "Decoder") =>
        IF args.n = 0
        THEN Asserted(ret[1].o, args.width) = {args.i}
        ELSE ret[1].o = 0

\* C19 amended: Decoder of width w: with n low and i in 0..w-1, exactly one bit
\* of o is asserted and it is bit i; with n low and i >= w (a value the signal i
\* can hold when w is 1 or not a power of two), o = 0; with n high, o = 0 for
\* every i.
C19_DecoderOneHotInRange ==
    (op = "Decoder") =>
        IF args.n = 0 /\ args.i < args.width
        THEN Asserted(ret[1].o, args.width) = {args.i}
        ELSE ret[1].o = 0

C19_Witness ==
    /\ op = "Decoder"
    /\ args.width = 3 /\ args.i = 3 /\ args.n = 0
    /\ ret = Some([o |-> 0])

----------------------------------------------------------------------------
(* Further properties of the resource builders *)

\* a modem-control line is supplied in the call
ModemLineGiven == \E line \in ModemLines : args[line] # None

\* C21: UARTResource checks its role exactly when a modem-control line is
\* supplied: with any of rts, cts, dtr, dsr, dcd, ri given and a role that is
\* not 'dce' or 'dte' (role omitted included) the call fails and no sub-signal
\* is built; with such a line and role 'dce' or 'dte' it succeeds; with none of
\* them given every role is accepted and the result is the pair rx (input), tx
\* (output), whatever the role.
C21_UARTRoleCheckedWithModemLines ==
    op = "UARTResource" =>
        /\ (ModemLineGiven /\ args.role \notin {Some("dce"), Some("dte")}) => Rejected
        /\ (ModemLineGiven /\ args.role \in {Some("dce"), Some("dte")}) => Accepted
        /\ ~ ModemLineGiven =>
              /\ Accepted
              /\ SubsignalNames = <<"rx", "tx">>
              /\ SubsignalDirs = <<"i", "o">>

C21_Witness ==
    /\ op = "UARTResource"
    /\ ~ ModemLineGiven
    /\ args.role = Some("host")
    /\ Accepted
    /\ SubsignalDirs = <<"i", "o">>

\* C22: every resource IrDAResource returns has exactly the three sub-signals
\* rx (input), tx (output), en (output), in that order, followed by the
\* attributes entry if and only if attrs was given; the third is named 'en'
\* whether en or sd was supplied, carries the pins supplied, and is
\* non-inverted for en and inverted for sd; rx and tx are not inverted.
C22_IrDAThreeSubsignals ==
    (op = "IrDAResource" /\ Accepted) =>
        LET ios == ret[1].ios
        IN  /\ SubsignalNames = <<"rx", "tx", "en">>
            /\ SubsignalDirs = <<"i", "o", "o">>
            /\ Len(ios) = 3 + (IF args.attrs # None THEN 1 ELSE 0)
            /\ \A k \in 1..3 : ios[k].kind = "Subsignal"
            /\ args.attrs # None => ios[4] = AttrsEntry(args.attrs[1])
            /\ ~ ios[1].invert /\ ~ ios[2].invert
            /\ ios[3].invert <=> args.sd # None
            /\ ios[3].pins = IF args.en # None THEN args.en[1] ELSE args.sd[1]

C22_Witness ==
    /\ op = "IrDAResource" /\ Accepted
    /\ args.sd = Some("SD") /\ args.en = None /\ args.attrs # None
    /\ Len(ret[1].ios) = 4
    /\ ret[1].ios[3] = SubsignalN("en", "SD", "o", 1)

SPIOrder == <<"cs", "clk", "copi", "cipo", "int", "reset">>
\* the sub-signal is part of the call: cs and clk always, the others when given
SPISupplied(n) == n \in {"cs", "clk"} \/ args[n] # None
\* the direction of each sub-signal for the controller, and its mirror image
SPIControllerDir(n) == IF n \in {"cs", "clk", "copi", "reset"} THEN "o" ELSE "i"
SPIMirror(d) == IF d = "o" THEN "i" ELSE "oe"
\* the sub-signals of the same call made with the other role
SPIOtherRole ==
    SelectSeq(SPIResource([args EXCEPT !.role = IF @ = Some("controller")
                                                THEN Some("peripheral")
                                                ELSE Some("controller")]).ret[1].ios,
              LAMBDA x : x.kind = "Subsignal")

\* C23: SPIResource with role 'controller' or 'peripheral': a call with both
\* copi and cipo absent fails; otherwise the sub-signals are cs, clk, copi,
\* cipo, int, reset in that order, each optional one present if and only if
\* supplied, then attrs if given; cs, clk, copi, reset are outputs and cipo, int
\* inputs for the controller; for the same arguments the peripheral has every
\* controller output as an input and every controller input as 'oe'.
C23_SPIMirroredDirections ==
    (op = "SPIResource" /\ args.role \in {Some("controller"), Some("peripheral")}) =>
        IF args.copi = None /\ args.cipo = None
        THEN Rejected
        ELSE /\ Accepted
             /\ SubsignalNames = SelectSeq(SPIOrder, SPISupplied)
             /\ Len(ret[1].ios) = Len(Subsignals) + (IF args.attrs # None THEN 1 ELSE 0)
             /\ args.attrs # None => ret[1].ios[Len(ret[1].ios)].kind = "Attrs"
             /\ \A k \in DOMAIN Subsignals :
                   Subsignals[k].dir =
                       IF args.role = Some("controller")
                       THEN SPIControllerDir(Subsignals[k].name)
                       ELSE SPIMirror(SPIControllerDir(Subsignals[k].name))
             /\ Len(SPIOtherRole) = Len(Subsignals)
             /\ \A k \in DOMAIN Subsignals :
                   /\ SPIOtherRole[k].name = Subsignals[k].name
                   /\ IF args.role = Some("controller")
                      THEN SPIOtherRole[k].dir = SPIMirror(Subsignals[k].dir)
                      ELSE Subsignals[k].dir = SPIMirror(SPIOtherRole[k].dir)

C23_Witness ==
    /\ op = "SPIResource" /\ Accepted
    /\ args.role = Some("peripheral")
    /\ args.copi # None /\ args.cipo # None /\ args.int # None /\ args.reset # None
    /\ SubsignalNames = SPIOrder
    /\ SubsignalDirs = <<"i", "i", "i", "oe", "oe", "i">>

----------------------------------------------------------------------------
(* Properties of create_missing_domain *)

IsECP5Domain   == op = "ECP5Platform.create_missing_domain"
IsMachXODomain == op = "LatticeMachXO2Or3LPlatform.create_missing_domain"
IsDomain       == IsECP5Domain \/ IsMachXODomain
\* the internal oscillator of the platform the call was made on
Oscillator     == IF IsECP5Domain THEN "OSCG" ELSE "OSCH"
InstancesOf(mod, type) == SelectSeq(mod.submodules, LAMBDA x : x.type = type)
\* the reset input the synchronizer samples
DomainRst ==
    IF args.self.default_rst = None THEN Const(0)
    ELSE Signal(args.self.default_rst[1], 1)

\* C24: create_missing_domain of both platforms returns a module only when the
\* name is 'sync' and a default clock is declared, and None otherwise.  The
\* module defines a reset-less 'sync' domain clocked by the default clock and
\* holds a two-stage reset synchronizer: the first register samples NOT rst
\* (constant 0 when no default reset is declared), the second the output of
\* the first, SGSR is driven by the output of the second, all three on the
\* same clock.  With the internal oscillator as default clock exactly one
\* oscillator instance drives that clock and no clock resource is requested.
C24_SyncDomainWithResetSynchronizer ==
    IsDomain =>
        /\ ret # None => (args.name = "sync" /\ args.self.default_clk # None)
        /\ ~(args.name = "sync" /\ args.self.default_clk # None) =>
              (ret = None /\ err = NoError /\ requested = <<>>)
        /\ ret # None =>
              LET mod  == ret[1]
                  ff   == InstancesOf(mod, "FD1S3AX")
                  sgsr == InstancesOf(mod, "SGSR")
                  osc  == InstancesOf(mod, Oscillator)
                  clk  == mod.comb[1].rhs
                  rsts == IF args.self.default_rst = None THEN <<>>
                          ELSE <<args.self.default_rst[1]>>
              IN  /\ err = NoError
                  /\ mod.domains = <<[name |-> "sync", reset_less |-> TRUE]>>
                  /\ Len(mod.comb) = 1
                  /\ mod.comb[1].lhs = ClockSignal("sync")
                  /\ Len(ff) = 2 /\ Len(sgsr) = 1
                  /\ Len(mod.submodules) = 3 + Len(osc)
                  /\ ff[1].ports.i_D = Not(DomainRst)
                  /\ ff[2].ports.i_D = ff[1].ports.o_Q
                  /\ ff[1].ports.o_Q # ff[2].ports.o_Q
                  /\ sgsr[1].ports.i_GSR = ff[2].ports.o_Q
                  /\ ff[1].ports.i_CK = clk
                  /\ ff[2].ports.i_CK = clk
                  /\ sgsr[1].ports.i_CLK = clk
                  /\ IF args.self.default_clk = Some(Oscillator)
                     THEN /\ Len(osc) = 1
                          /\ osc[1].ports.o_OSC = clk
                          /\ requested = rsts
                     ELSE /\ Len(osc) = 0
                          /\ clk = Signal(args.self.default_clk[1], 1)
                          /\ requested = <<args.self.default_clk[1]>> \o rsts

C24_Witness ==
    /\ IsECP5Domain
    /\ args.name = "sync"
    /\ args.self.default_clk = Some("OSCG")
    /\ args.self.default_rst = None
    /\ err = NoError /\ ret # None
    /\ Len(ret[1].submodules) = 4
    /\ InstancesOf(ret[1], "FD1S3AX")[1].ports.i_D = Not(Const(0))
    /\ requested = <<>>

\* C25: ECP5 create_missing_domain('sync') with default clock 'OSCG' succeeds
\* if and only if the board has an oscg_div attribute that is an integer with
\* 2 <= oscg_div <= 128; a missing attribute, a non-integer, a value below 2
\* or above 128 raises ValueError before any resource is requested.
C25_OscgDividerValidatedFirst ==
    (IsECP5Domain /\ args.name = "sync" /\ args.self.default_clk = Some("OSCG")) =>
        IF /\ args.self.oscg_div # NoAttr
           /\ args.self.oscg_div.type = "int"
           /\ 2 <= args.self.oscg_div.val
           /\ args.self.oscg_div.val <= 128
        THEN /\ err = NoError /\ ret # None
             /\ InstancesOf(ret[1], "OSCG")[1].ports.p_DIV = args.self.oscg_div.val
        ELSE /\ err.kind = "ValueError"
             /\ ret = <<>>
             /\ requested = <<>>

C25_Witness ==
    /\ IsECP5Domain /\ args.name = "sync"
    /\ args.self.default_clk = Some("OSCG")
    /\ args.self.default_rst = Some("rst")
    /\ args.self.oscg_div = PyVal("int", 129)
    /\ err.kind = "ValueError"
    /\ requested = <<>>

\* C26: MachXO create_missing_domain('sync') with default clock 'OSCH' and an
\* osch_frequency outside the supported-frequency table fails with a
\* configuration error and leaves the platform unchanged: no resource, in
\* particular not the default reset, has been requested when the error is raised.
C26_OschFrequencyRejectedWithoutRequest ==
    (/\ IsMachXODomain /\ args.name = "sync"
     /\ args.self.default_clk = Some("OSCH")
     /\ args.self.osch_frequency # NoAttr
     /\ ~osch_supported(args.self.osch_frequency)) =>
        /\ err.kind = "ValueError"
        /\ ret = <<>>
        /\ requested = <<>>

----------------------------------------------------------------------------
(* Properties of the command lists *)

IsECP5Commands   == op = "ECP5Platform.command_templates" /\ err = NoError /\ ret # None
IsMachXOCommands == op = "LatticeMachXO2Or3LPlatform.command_templates"
\* the files the toolchain of the command list renders from its file templates
RenderedFiles ==
    IF IsMachXOCommands THEN Range(machxo_file_templates)
    ELSE Range(file_templates(platform).ret[1])
WrittenBefore(cmds, k) == UNION {cmds[j].writes : j \in 1..(k - 1)}
ImplOutputs == {"{{name}}_impl/{{name}}_impl.bit", "{{name}}_impl/{{name}}_impl.jed"}
\* some command before the k-th runs the tool and writes the file
Earlier(cmds, k, tool, file) ==
    \E j \in 1..(k - 1) : cmds[j].tool = tool /\ file \in cmds[j].writes

\* C27: in every command list (ECP5 Trellis, ECP5 Diamond, MachXO Diamond), in
\* list order, each command reads only files rendered by the toolchain's file
\* templates or written by an earlier command of the list.  Trellis runs
\* yosys (reads .ys, writes .json), then nextpnr-ecp5 (reads .json and .lpf,
\* writes .config), then ecppack (reads .config); Diamond runs pnmainc before
\* every ddtcmd that reads an output in {{name}}_impl; on MachXO the copy of
\* {{name}}_flash.svf to {{name}}.svf follows the ddtcmd that writes it.
C27_CommandsReadWhatExists ==
    (IsECP5Commands \/ IsMachXOCommands) =>
        LET cmds == ret[1]
        IN  /\ \A k \in DOMAIN cmds :
                 cmds[k].reads \subseteq (RenderedFiles \cup WrittenBefore(cmds, k))
            /\ (IsECP5Commands /\ platform.toolchain = Some("Trellis")) =>
                 /\ [k \in DOMAIN cmds |-> cmds[k].tool] =
                        <<"yosys", "nextpnr-ecp5", "ecppack">>
                 /\ cmds[1].reads = {"{{name}}.ys"}
                 /\ "{{name}}.json" \in cmds[1].writes
                 /\ cmds[2].reads = {"{{name}}.json", "{{name}}.lpf"}
                 /\ "{{name}}.config" \in cmds[2].writes
                 /\ cmds[3].reads = {"{{name}}.config"}
            /\ (IsMachXOCommands \/ platform.toolchain = Some("Diamond")) =>
                 \A k \in DOMAIN cmds :
                    (cmds[k].tool = "ddtcmd" /\ cmds[k].reads \cap ImplOutputs # {}) =>
                        \A f \in cmds[k].reads \cap ImplOutputs :
                            Earlier(cmds, k, "pnmainc", f)
            /\ IsMachXOCommands =>
                 /\ \E k \in DOMAIN cmds : "{{name}}_flash.svf" \in cmds[k].reads
                 /\ \A k \in DOMAIN cmds :
                      "{{name}}_flash.svf" \in cmds[k].reads =>
                          /\ cmds[k].writes = {"{{name}}.svf"}
                          /\ Earlier(cmds, k, "ddtcmd", "{{name}}_flash.svf")

C27_Witness ==
    /\ IsMachXOCommands
    /\ Len(ret[1]) = 6
    /\ ret[1][4].writes = {"{{name}}_flash.svf"}
    /\ ret[1][5].reads = {"{{name}}_flash.svf"}

====
